---------------------------- MODULE Spec2Model ----------------------------
(* A model of arch/stackTrace.cpp, the crash-report pipeline, and of      *)
(* arch/timing.cpp, the tick timer.                                       *)
(*                                                                        *)
(* The module holds several specifications over one set of variables,     *)
(* one per part of the program:                                           *)
(*   SpecArgv     _MakeArgv, applied to bounded inputs                    *)
(*   SpecInfo     _ProgInfo::SetProgramInfoForErrors and its snapshot     *)
(*   SpecName     concurrent calls of _GetStackTraceName                  *)
(*   SpecSys      CrashHandlerSystemv, parent side                        *)
(*   Spec         the report entry points run by several threads          *)
(*   SpecRace     one report beside calls that change what it prints      *)
(*   SpecPost     _LogStackTraceForPid, applied to bounded inputs         *)
(*   SpecHelperPost _LogStackTraceForPid as called by the helper          *)
(*   SpecSession  the reports beside LogSessionInfo                       *)
(*   SpecFair     Spec under a fair scheduler                             *)
(*   SpecOrder    Spec with a log file that may fail to be reopened       *)
(*   SpecNested   Spec with fault signals whose handlers report           *)
(*   SpecTrace    _GetStackTrace and the stack trace callback             *)
(*   SpecFrames   GetStackFrames on the Linux unwinder                    *)
(*   SpecVariants GetStackFrames on Windows and Darwin, on bounded inputs *)
(*   SpecEmit     _LogInfo::EmitAnyExtraLogInfo, applied to bounded inputs *)
(*   SpecRegistry _LogInfo::SetExtraLogInfoForErrors, call after call      *)
(*   SpecMeasure  _MeasureExecutionTime, round after round                 *)
(*   SpecMeasureFair SpecMeasure with a clock that goes on                 *)
(*   SpecIters    the batch size of _MeasureExecutionTime, on bounded      *)
(*                inputs                                                   *)
(*   SpecBatch    the same, with estimates of 0 ticks                      *)
(*   SpecItoa     asitoa on bounded inputs                                 *)
(*   SpecGetenv   asgetenv on bounded environment blocks                   *)
(*   SpecTicks    TicksToNanoseconds and TicksToSeconds on bounded inputs  *)
(*   SpecCalib    _ComputeNanosecondsPerTick on bounded files              *)
(* Each specification leaves the variables of the other parts unchanged.  *)
EXTENDS Integers, Sequences, FiniteSets, TLC

VARIABLES
    \* ---- _MakeArgv (SpecArgv)
    mkIn,        \* the arguments of one call of _MakeArgv
    mkOut,       \* its result: return value and destination memory
    mkPc,        \* "ready" before the call, "done" after it
    \* ---- _ProgInfo (SpecInfo)
    progInfoMap,        \* _progInfoMap: the entries, in key order
    progInfoForErrors,  \* _progInfoForErrors: the printed snapshot
    infoGot,            \* the last GetProgramInfoForErrors call and its result
    infoLast,           \* history: the value each key was last set to
    infoCalls,          \* history: the number of set calls so far
    \* ---- _GetStackTraceName (SpecName)
    fsFiles,     \* the temp directory: records [name, by, data]
    gsLen,       \* the len argument, the size of the callers' buffers
    gs,          \* per caller: pc, suffix, buf (a C string), fd, errno
    \* ---- CrashHandlerSystemv (SpecSys)
    sys,         \* the parent: pc, arguments, locals, errno, alarm, handler
    child,       \* the forked child: state and exit status
    \* ---- the report entry points (Spec, SpecRace)
    th,                 \* per thread: pc, operation and its locals
    busy,               \* the atomic_flag of _LogProcessStateHelper
    isCrashing,         \* _isCrashing
    progNameForErrors,  \* _progNameForErrors: 0 (null) or a heap buffer
    heap,               \* the program-name buffers malloc'ed and not freed
    nextBuf,            \* the next buffer strdup hands out
    progInfoMutex,      \* _progInfoForErrorsMutex: 0 or the holding thread
    infoFreed,          \* the snapshot buffer is freed and not yet replaced
    logInfoForErrors,   \* _logInfoForErrors: the registered keys
    logInfoMutex,       \* _logInfoForErrorsMutex: 0 or the holding thread
    errStream,          \* what the reports wrote to stderr, in order
    quota,              \* the calls the threads may still make
    config,             \* the registered commands and the logging flag
    cmdLog,             \* the commands run and session logs appended
    fatalReturned,      \* history: a LogFatalProcessState call has returned
    badReads,           \* history: reads of freed or half-replaced memory
    \* ---- _LogStackTraceForPid on its own (SpecPost)
    pm,          \* one call: its arguments and what it did
    \* ---- _GetStackTrace and the stack trace callback (SpecTrace)
    tr,          \* the installed callback, one call of _GetStackTrace, and
                 \* what GetStackTraceCallback stored
    \* ---- GetStackFrames (SpecFrames)
    uw,          \* one walk of the unwinder: the vector and the context
    \* ---- _LogInfo::SetExtraLogInfoForErrors (SpecLogInfo)
    li,          \* the map of extra log info and the registrations made
    \* ---- _MeasureExecutionTime (SpecMeasure)
    me,          \* one measurement: the sample buffer and the loop's locals
    \* ---- functions that keep no state (SpecEmit, SpecItoa, ...)
    fc           \* one call: its arguments and its result

argvVars == <<mkIn, mkOut, mkPc>>

infoVars == <<progInfoMap, progInfoForErrors, infoGot, infoLast, infoCalls>>

nameVars == <<fsFiles, gsLen, gs>>

sysVars == <<sys, child>>

reportVars ==
    <<th, busy, isCrashing, progNameForErrors, heap, nextBuf, progInfoMutex,
      infoFreed, logInfoForErrors, logInfoMutex, errStream, quota, config,
      cmdLog, fatalReturned, badReads>>

postVars == <<pm>>

traceVars == <<tr>>

laterVars == <<uw, li, me, fc>>

\* The variables of the parts above.
firstVars ==
    <<argvVars, infoVars, nameVars, sysVars, reportVars, postVars, traceVars>>

vars == <<argvVars, infoVars, nameVars, sysVars, reportVars, postVars,
          traceVars, laterVars>>

\* What the actions of one part leave unchanged.
exceptArgv == <<infoVars, nameVars, sysVars, reportVars, postVars,
          traceVars, laterVars>>

exceptInfo == <<argvVars, nameVars, sysVars, reportVars, postVars,
          traceVars, laterVars>>

exceptName == <<argvVars, infoVars, sysVars, reportVars, postVars,
          traceVars, laterVars>>

exceptSys == <<argvVars, infoVars, nameVars, reportVars, postVars,
          traceVars, laterVars>>

\* The reports use the program-info map and the temp directory as well.
exceptReport ==
    <<argvVars, infoGot, infoLast, infoCalls, gsLen, gs, sysVars, postVars,
      traceVars, laterVars>>

-----------------------------------------------------------------------------
(* C strings and pointers.                                                 *)

\* The null pointer, as a value no token of a command line equals.
Null == "<nullptr>"

\* asstreq: two nulls are equal, a null and a string are not, two strings
\* are equal when they have the same characters.
asstreq(dst, src) ==
    IF dst = Null \/ src = Null
      THEN dst = src
      ELSE dst = src

-----------------------------------------------------------------------------
(* _MakeArgv.                                                              *)

\* The longest argument template the inputs are drawn from.
MaxTemplate == 3

\* The number of slots of the memory the destination array lies in; the call
\* is told maxDstArgs <= DstCap of them are its own.
DstCap == MaxTemplate + 4

\* What every destination slot holds before the call.
Untouched == "<untouched>"

\* The template of the worked example and its substitutions.
ExampleTemplate == <<"$cmd", "-p", "$pid", "-r", "$reason">>

ExampleSubs == << <<"$pid", "1234">>, <<"$reason", "oom">> >>

\* Substitutions as _LogStackTraceForPid builds them; reason may be null.
CallerSubs(reason) ==
    << <<"$pid", "1234">>, <<"$log", "/tmp/st_prog.1234">>,
       <<"$time", "7">>, <<"$reason", reason>> >>

\* Two substitutions with the same key: the first one is to win.
TwiceSubs == << <<"$pid", "1234">>, <<"$pid", "9">> >>

Tokens == {"$cmd", "$pid", "-p"}

RECURSIVE SeqsUpTo(_, _)
SeqsUpTo(S, n) ==
    IF n = 0 THEN {<<>>}
    ELSE LET shorter == SeqsUpTo(S, n - 1)
         IN  shorter \cup
             {Append(s, x) : s \in {q \in shorter : Len(q) = n - 1}, x \in S}

\* The entries of a template, without its terminator.
Templates == SeqsUpTo(Tokens, MaxTemplate) \cup {ExampleTemplate}

\* srcArgv as it lies in memory: the entries and the terminating null.
\* A null srcArgv pointer is the empty sequence (no array at all).
NullArgv == <<>>

SrcArrays == {Append(t, Null) : t \in Templates} \cup {NullArgv}

\* The number of the entries of a source array before its terminator.
RECURSIVE CountArgs(_, _)
CountArgs(srcArgv, i) ==
    IF srcArgv[i] = Null THEN 0 ELSE 1 + CountArgs(srcArgv, i + 1)

\* The substitution loop of one entry: the value of the first substitution,
\* from index k on, whose key equals the entry, else the entry as it is.
RECURSIVE Substitute(_, _, _)
Substitute(arg, substitutions, k) ==
    IF k > Len(substitutions) THEN arg
    ELSE IF asstreq(arg, substitutions[k][1]) THEN substitutions[k][2]
    ELSE Substitute(arg, substitutions, k + 1)

\* The build loop from source index i on (0-based as in the code; the
\* source array is 1-based here).  j = i throughout, as both branches of the
\* code advance j once per entry.  The loop runs over n entries, the
\* terminator of the source among them, and a terminator is stored after it.
RECURSIVE BuildArgv(_, _, _, _, _, _)
BuildArgv(dstArgv, cmd, srcArgv, substitutions, i, n) ==
    IF i = n THEN [dstArgv EXCEPT ![i] = Null]
    ELSE LET arg == srcArgv[i + 1]
             val == IF asstreq(arg, "$cmd") THEN cmd
                    ELSE Substitute(arg, substitutions, 1)
         IN  BuildArgv([dstArgv EXCEPT ![i] = val], cmd, srcArgv,
                       substitutions, i + 1, n)

\* A bug the claims should notice: the array is built before the size check.
MakeArgvBuildsFirst(dstArgv, maxDstArgs, cmd, srcArgv, substitutions) ==
    IF cmd = Null \/ srcArgv = NullArgv
      THEN [ret |-> FALSE, dst |-> dstArgv]
      ELSE LET n == 1 + CountArgs(srcArgv, 1)
               built == BuildArgv(dstArgv, cmd, srcArgv, substitutions, 0,
                                  IF n < DstCap THEN n ELSE DstCap - 1)
           IN  IF n >= maxDstArgs
                 THEN [ret |-> FALSE, dst |-> built]
                 ELSE [ret |-> TRUE, dst |-> built]

\* A bug the claims should notice: the substitutions are searched from the
\* last to the first, so the last matching one wins.
MakeArgvLastMatch(dstArgv, maxDstArgs, cmd, srcArgv, substitutions) ==
    IF cmd = Null \/ srcArgv = NullArgv
      THEN [ret |-> FALSE, dst |-> dstArgv]
      ELSE LET n == 1 + CountArgs(srcArgv, 1)
               rev == [k \in 1..Len(substitutions) |->
                          substitutions[Len(substitutions) + 1 - k]]
           IN  IF n >= maxDstArgs
                 THEN [ret |-> FALSE, dst |-> dstArgv]
                 ELSE [ret |-> TRUE,
                       dst |-> BuildArgv(dstArgv, cmd, srcArgv, rev, 0, n)]

\* A bug the claims should notice: a template of maxDstArgs entries passes
\* the size check.
MakeArgvOffByOne(dstArgv, maxDstArgs, cmd, srcArgv, substitutions) ==
    IF cmd = Null \/ srcArgv = NullArgv
      THEN [ret |-> FALSE, dst |-> dstArgv]
      ELSE LET n == 1 + CountArgs(srcArgv, 1)
           IN  IF n > maxDstArgs
                 THEN [ret |-> FALSE, dst |-> dstArgv]
                 ELSE [ret |-> TRUE,
                       dst |-> BuildArgv(dstArgv, cmd, srcArgv,
                                         substitutions, 0, n)]

\* _MakeArgv: the return value and the destination memory after the call.
MakeArgv(dstArgv, maxDstArgs, cmd, srcArgv, substitutions) ==
    IF cmd = Null \/ srcArgv = NullArgv
      THEN [ret |-> FALSE, dst |-> dstArgv]
      ELSE LET n == 1 + CountArgs(srcArgv, 1)
           IN  IF n >= maxDstArgs
                 THEN [ret |-> FALSE, dst |-> dstArgv]
                 ELSE [ret |-> TRUE,
                       dst |-> BuildArgv(dstArgv, cmd, srcArgv,
                                         substitutions, 0, n)]

MkInputs ==
    [maxDstArgs : 0..DstCap,
     cmd : {Null, "/bin/tool"},
     srcArgv : SrcArrays,
     substitutions : {ExampleSubs, CallerSubs("oom"), CallerSubs(Null),
                      TwiceSubs}]

FreshDst == [i \in 0..(DstCap - 1) |-> Untouched]

NoResult == [ret |-> FALSE, dst |-> FreshDst]

ArgvIdle ==
    /\ mkIn = [maxDstArgs |-> 0, cmd |-> Null, srcArgv |-> NullArgv,
               substitutions |-> ExampleSubs]
    /\ mkOut = NoResult
    /\ mkPc = "idle"

ArgvInit ==
    /\ mkIn \in MkInputs
    /\ mkOut = NoResult
    /\ mkPc = "ready"

\* One call of _MakeArgv on a destination nothing was written to.
MakeArgvCall ==
    /\ mkPc = "ready"
    /\ mkOut' = MakeArgv(FreshDst, mkIn.maxDstArgs, mkIn.cmd, mkIn.srcArgv,
                         mkIn.substitutions)
    /\ mkPc' = "done"
    /\ UNCHANGED <<mkIn, exceptArgv>>

ArgvNext == MakeArgvCall

\* The entries of the template of the call, without the terminator.
MkTemplate == SubSeq(mkIn.srcArgv, 1, Len(mkIn.srcArgv) - 1)

MkCalled == mkPc = "done" /\ mkIn.cmd # Null /\ mkIn.srcArgv # NullArgv

\* What the claim says an entry becomes: the command for "$cmd", the value
\* of the substitution of least index with that key, else the entry itself.
ExpectedArg(arg) ==
    LET subs == mkIn.substitutions
        hits == {k \in 1..Len(subs) : subs[k][1] = arg}
    IN  IF arg = "$cmd" THEN mkIn.cmd
        ELSE IF hits = {} THEN arg
        ELSE subs[CHOOSE k \in hits : \A h \in hits : k <= h][2]

\* C6: a successful _MakeArgv leaves one entry per template entry, in order:
\* the command for "$cmd", the first matching substitution's value for a
\* key, any other entry unchanged, then a null terminator; the example
\* template gives ["/bin/tool","-p","1234","-r","oom",null].
C6_ArgvSubstituted ==
    (MkCalled /\ mkOut.ret) =>
        /\ \A i \in 1..Len(MkTemplate) :
               mkOut.dst[i - 1] = ExpectedArg(MkTemplate[i])
        /\ mkOut.dst[Len(MkTemplate)] = Null
        /\ (MkTemplate = ExampleTemplate /\ mkIn.substitutions = ExampleSubs)
              => [i \in 0..5 |-> mkOut.dst[i]] =
                   [i \in 0..5 |-> <<"/bin/tool", "-p", "1234", "-r", "oom",
                                      Null>>[i + 1]]

C6_Witness ==
    /\ MkCalled /\ mkOut.ret
    /\ MkTemplate = ExampleTemplate
    /\ mkIn.substitutions = ExampleSubs

\* C7 (as claimed): with a command and a template, _MakeArgv fails exactly
\* when the template has more than maxDstArgs - 1 entries.
C7_FailsOnlyWhenTooLong ==
    MkCalled => (~mkOut.ret <=> Len(MkTemplate) > mkIn.maxDstArgs - 1)

\* C8: a failed _MakeArgv has written nothing: every destination slot holds
\* what it held before the call.
C8_FailureWritesNothing ==
    (mkPc = "done" /\ ~mkOut.ret) => mkOut.dst = FreshDst

C8_Witness ==
    /\ MkCalled /\ ~mkOut.ret
    /\ Len(MkTemplate) > 0
    /\ mkIn.maxDstArgs > 1

-----------------------------------------------------------------------------
(* _ProgInfo: the program-info map and its printed snapshot.               *)
(* A std::string is the sequence of its character codes.                   *)

\* operator< of std::string: lexicographic, a proper prefix first.
RECURSIVE StrLess(_, _)
StrLess(a, b) ==
    IF b = <<>> THEN FALSE
    ELSE IF a = <<>> THEN TRUE
    ELSE IF Head(a) # Head(b) THEN Head(a) < Head(b)
    ELSE StrLess(Tail(a), Tail(b))

\* The characters the code writes between and after a key and a value.
ColonSpace == <<58, 32>>

Newline == <<10>>

\* c_str() followed by strdup: the characters before the first NUL.
RECURSIVE CStr(_)
CStr(s) ==
    IF s = <<>> \/ Head(s) = 0 THEN <<>> ELSE <<Head(s)>> \o CStr(Tail(s))

\* A null char* where a string may stand.
NullStr == <<-1>>

\* std::map::erase(key) on the entries kept in key order.
MapErase(map, key) == SelectSeq(map, LAMBDA e : e[1] # key)

\* std::map::operator[](key) = value: the entry is replaced in place or
\* inserted before the first entry with a greater key.
MapAssign(map, key, value) ==
    IF \E i \in 1..Len(map) : map[i][1] = key
      THEN [i \in 1..Len(map) |->
               IF map[i][1] = key THEN <<key, value>> ELSE map[i]]
      ELSE LET before == SelectSeq(map, LAMBDA e : StrLess(e[1], key))
               after == SelectSeq(map, LAMBDA e : StrLess(key, e[1]))
           IN  before \o << <<key, value>> >> \o after

\* std::map::find(key): the value, or the default-constructed result.
MapFind(map, key) ==
    IF \E i \in 1..Len(map) : map[i][1] = key
      THEN map[CHOOSE i \in 1..Len(map) : map[i][1] = key][2]
      ELSE <<>>

\* A bug the claims should notice: an empty value is stored, not erased.
UpdateMapNoErase(map, key, value) == MapAssign(map, key, value)

\* The map after the first statement of SetProgramInfoForErrors.
UpdateMap(map, key, value) ==
    IF value = <<>> THEN MapErase(map, key) ELSE MapAssign(map, key, value)

\* The loop over the map: "key: value\n" for each entry from i on.
RECURSIVE PrintMap(_, _)
PrintMap(map, i) ==
    IF i > Len(map) THEN <<>>
    ELSE map[i][1] \o ColonSpace \o map[i][2] \o Newline \o PrintMap(map, i + 1)

\* The longest history of set calls.
MaxInfoCalls == 4

InfoKeys == {<<>>, <<97>>, <<97, 98>>, <<98>>}

InfoValues == {<<>>, <<120>>, <<121, 58>>}

NeverSet == <<-2>>

NoGet == [key |-> NeverSet, result |-> NeverSet]

InfoInit ==
    /\ progInfoMap = <<>>
    /\ progInfoForErrors = NullStr
    /\ infoGot = NoGet
    /\ infoLast = [k \in InfoKeys |-> NeverSet]
    /\ infoCalls = 0

SetProgramInfoForErrors(key, value) ==
    /\ infoCalls < MaxInfoCalls
    /\ LET map == UpdateMap(progInfoMap, key, value)
       IN  /\ progInfoMap' = map
           /\ progInfoForErrors' = CStr(PrintMap(map, 1))
    /\ infoLast' = [infoLast EXCEPT ![key] = value]
    /\ infoCalls' = infoCalls + 1
    /\ infoGot' = NoGet
    /\ UNCHANGED exceptInfo

GetProgramInfoForErrors(key) ==
    /\ infoGot' = [key |-> key, result |-> MapFind(progInfoMap, key)]
    /\ UNCHANGED <<progInfoMap, progInfoForErrors, infoLast, infoCalls>>
    /\ UNCHANGED exceptInfo

InfoNext ==
    \/ \E key \in InfoKeys, value \in InfoValues :
          SetProgramInfoForErrors(key, value)
    \/ \E key \in InfoKeys : GetProgramInfoForErrors(key)

-----------------------------------------------------------------------------
(* Async-safe number formatting.                                           *)

\* The while loop of asNumDigits: one more digit for each division by ten.
RECURSIVE MoreDigits(_)
MoreDigits(x) == IF x >= 10 THEN 1 + MoreDigits(x \div 10) ELSE 0

asNumDigits(x) == IF x < 0 THEN 2 + MoreDigits(-x) ELSE 1 + MoreDigits(x)

\* A cell of a buffer that asitoa has not written.
Unwritten == -3

\* The digit loop of asitoa: digits are stored from cell at - 1 downwards.
RECURSIVE WriteDigits(_, _, _)
WriteDigits(cells, at, x) ==
    IF x = 0 THEN cells
    ELSE WriteDigits([cells EXCEPT ![at - 1] = 48 + (x % 10)], at - 1,
                     x \div 10)

\* asitoa(s, x): the cells s[0] .. s[end - 1] after the call, end being the
\* pointer returned; s[end] holds the NUL.  The sign is stored in s[0] first;
\* end is then counted from s with the negated x.
asitoa(x) ==
    LET x1 == IF x < 0 THEN -x ELSE x
        end == asNumDigits(x1)
        signed == [i \in 0..(end - 1) |->
                      IF i = 0 /\ x < 0 THEN 45 ELSE Unwritten]
        cells == IF x1 = 0 THEN [signed EXCEPT ![end - 1] = 48]
                 ELSE WriteDigits(signed, end, x1)
    IN  [i \in 1..end |-> cells[i - 1]]

-----------------------------------------------------------------------------
(* _GetStackTraceName: the name of a new log file, created exclusively.    *)

\* The number of concurrent callers.
NumCallers == 2

\* The files that may exist beforehand are the first MaxExisting names.
MaxExisting == 2

Callers == 1..NumCallers

TmpDir == <<47, 116>>

stackTracePrefix == <<115, 116>>

ProgName == <<112>>

Pid == 42

\* required: the bytes of the default name and its NUL.
Required ==
    Len(TmpDir) + 1 + Len(stackTracePrefix) + 1 + Len(ProgName) + 1
    + asNumDigits(Pid) + 1

\* buf after the asstrcpy/asitoa calls that fill in the default name.
DefaultName ==
    TmpDir \o <<47>> \o stackTracePrefix \o <<95>> \o ProgName \o <<46>>
    \o asitoa(Pid)

\* buf after asstrcpy(end, ".") and asitoa(end + 1, suffix).
SuffixedName(suffix) == DefaultName \o <<46>> \o asitoa(suffix)

NameOf(suffix) == IF suffix = 0 THEN DefaultName ELSE SuffixedName(suffix)

\* Buffer sizes: too small for any name, for the default name only, for a
\* one-digit suffix, and the 1024 bytes of the callers.
GsLens == {Required - 1, Required, Required + 2, 1024}

Exists(files, name) == \E f \in files : f.name = name

\* A bug the claims should notice: open without O_EXCL, which opens and
\* truncates a file that exists.
OpenTruncating(files, name, who) ==
    [fd |-> 3, errno |-> "0",
     files |-> {f \in files : f.name # name}
               \cup {[name |-> name, by |-> who, data |-> "empty"]}]

\* open(name, O_CREAT | O_WRONLY | O_TRUNC | O_EXCL) when the file system
\* lets the caller create files: EEXIST if the name exists, else the file is
\* created empty.
OpenExclusive(files, name, who) ==
    IF Exists(files, name)
      THEN [fd |-> -1, errno |-> "EEXIST", files |-> files]
      ELSE [fd |-> 3, errno |-> "0",
            files |-> files \cup {[name |-> name, by |-> who, data |-> "empty"]}]

NameInit ==
    /\ \E k \in SUBSET (0..(MaxExisting - 1)) :
          fsFiles = {[name |-> NameOf(i), by |-> 0, data |-> "old"] : i \in k}
    /\ gsLen \in GsLens
    /\ gs = [t \in Callers |->
               [pc |-> "entry", suffix |-> 0, buf |-> <<>>, fd |-> -1,
                errno |-> "0"]]

NameIdle ==
    /\ fsFiles = {}
    /\ gsLen = 0
    /\ gs = [t \in Callers |->
               [pc |-> "idle", suffix |-> 0, buf |-> <<>>, fd |-> -1,
                errno |-> "0"]]

\* The code after an open, up to the next open or the return: the loop test,
\* the next suffix and its space check, and the final close.
AfterOpen(g, r) ==
    IF r.fd = -1 /\ r.errno = "EEXIST"
      THEN IF gsLen < Required + 1 + asNumDigits(g.suffix + 1)
             THEN [g EXCEPT !.pc = "failed", !.suffix = @ + 1, !.fd = -1,
                            !.errno = "ENOMEM"]
             ELSE [g EXCEPT !.pc = "open", !.suffix = @ + 1, !.fd = -1,
                            !.errno = "EEXIST",
                            !.buf = SuffixedName(g.suffix + 1)]
      ELSE IF r.fd # -1
             THEN [g EXCEPT !.pc = "created", !.fd = 0, !.errno = r.errno]
             ELSE [g EXCEPT !.pc = "failed", !.fd = -1, !.errno = r.errno]

\* The space check and the default name, up to the first open.
GsEnter(t) ==
    /\ gs[t].pc = "entry"
    /\ gs' = [gs EXCEPT ![t] =
                IF gsLen < Required
                  THEN [@ EXCEPT !.pc = "failed", !.errno = "ENOMEM"]
                  ELSE [@ EXCEPT !.pc = "open", !.buf = DefaultName]]
    /\ UNCHANGED <<fsFiles, gsLen, exceptName>>

\* One open of the name in buf, and the code that follows it.
GsOpen(t) ==
    /\ gs[t].pc = "open"
    /\ LET r == OpenExclusive(fsFiles, gs[t].buf, t)
       IN  /\ fsFiles' = r.files
           /\ gs' = [gs EXCEPT ![t] = AfterOpen(gs[t], r)]
    /\ UNCHANGED <<gsLen, exceptName>>

\* An open that fails for another reason than the name being taken (no
\* permission, no space, no descriptors).
GsOpenDenied(t) ==
    /\ gs[t].pc = "open"
    /\ gs' = [gs EXCEPT ![t] =
                AfterOpen(gs[t], [fd |-> -1, errno |-> "EACCES"])]
    /\ UNCHANGED <<fsFiles, gsLen, exceptName>>

\* The owner of a created file writes its report into it.
GsWrite(t) ==
    /\ gs[t].pc = "created"
    /\ \E f \in fsFiles :
          /\ f.name = gs[t].buf
          /\ f.data = "empty"
          /\ fsFiles' = (fsFiles \ {f}) \cup {[f EXCEPT !.data = "report"]}
    /\ UNCHANGED <<gsLen, gs, exceptName>>

NameNext ==
    \/ \E t \in Callers : GsEnter(t)
    \/ \E t \in Callers : GsOpen(t)
    \/ \E t \in Callers : GsOpenDenied(t)
    \/ \E t \in Callers : GsWrite(t)

-----------------------------------------------------------------------------
(* CrashHandlerSystemv: fork, exec in the child, timed wait in the parent. *)

\* The largest timeout argument.
MaxTimeout == 2

\* How many signals other than the function's own alarm interrupt the wait.
MaxSignals == 1

\* The exit statuses of a handler that runs; 127 is also what the child
\* exits with when the exec fails.
ExitCodes == {0, 1, 127}

SysArgs == [timeout : (-1)..MaxTimeout, callback : BOOLEAN]

SysStart(args) ==
    [pc |-> "entry", timeout |-> args.timeout, callback |-> args.callback,
     delta |-> 0, retval |-> 0, errno |-> "0", alarm |-> FALSE,
     handler |-> "old", waits |-> 0, seen |-> "none", calls |-> 0,
     signals |-> 0, msg |-> "none", wakes |-> 0, arg |-> args.timeout,
     lateCall |-> FALSE]

NoChild == [state |-> "none", status |-> 0]

SysInit ==
    /\ \E args \in SysArgs : sys = SysStart(args)
    /\ child = NoChild

SysIdle ==
    /\ sys = [SysStart([timeout |-> 0, callback |-> FALSE]) EXCEPT
                 !.pc = "idle"]
    /\ child = NoChild

\* A bug the claims should notice: retval keeps its initial 0 when the child
\* was killed by a signal.
WaitResultSignalZero(state, status) ==
    IF state = "exited"
      THEN [retval |-> status,
            errno |-> IF status = 127 THEN "ENOENT" ELSE "0",
            msg |-> IF status = 127 THEN "failed to exec" ELSE "none"]
      ELSE [retval |-> 0, errno |-> "EINTR", msg |-> "died"]

\* What the parent makes of the status waitpid hands it: the exit status of
\* a child that exited, -1 for one that a signal killed.
WaitResult(state, status) ==
    IF state = "exited"
      THEN [retval |-> status,
            errno |-> IF status = 127 THEN "ENOENT" ELSE "0",
            msg |-> IF status = 127 THEN "failed to exec" ELSE "none"]
      ELSE [retval |-> -1, errno |-> "EINTR", msg |-> "died"]

\* nonLockingFork fails: the message is written and -1 returned at once.
SysForkFails ==
    /\ sys.pc = "entry"
    /\ sys' = [sys EXCEPT !.pc = "returned", !.retval = -1,
                           !.errno = "EAGAIN", !.msg = "unable to fork"]
    /\ UNCHANGED <<child, exceptSys>>

\* nonLockingFork succeeds: the child runs, the parent installs its alarm
\* handler and saves the old one.
SysFork ==
    /\ sys.pc = "entry"
    /\ sys' = [sys EXCEPT !.pc = "top", !.delta = 0, !.handler = "arch"]
    /\ child' = [state |-> "running", status |-> 0]
    /\ UNCHANGED exceptSys

\* The head of the loop: the one-second alarm, set when timeout > 0, and the
\* call of waitpid.
SysArm ==
    /\ sys.pc = "top"
    /\ sys' = [sys EXCEPT !.pc = "wait",
                           !.delta = IF sys.timeout > 0 THEN 1 ELSE @,
                           !.alarm = IF sys.timeout > 0 THEN TRUE ELSE @,
                           !.waits = @ + 1]
    /\ UNCHANGED <<child, exceptSys>>

\* waitpid returns the terminated child; the status decides the result.
SysWaitReaps ==
    /\ sys.pc = "wait"
    /\ child.state \in {"exited", "signaled"}
    /\ LET r == WaitResult(child.state, child.status)
       IN  sys' = [sys EXCEPT !.pc = "out", !.retval = r.retval,
                              !.errno = r.errno, !.msg = r.msg,
                              !.seen = child.state]
    /\ child' = [child EXCEPT !.state = "reaped"]
    /\ UNCHANGED exceptSys

\* A bug the claims should notice: the callback is left out on the wake-up
\* that ends the loop.
AfterInterruptTestFirst(p) ==
    [p EXCEPT !.errno = "EINTR",
              !.wakes = @ + 1,
              !.calls = IF p.callback /\ p.timeout - p.delta > 0
                          THEN @ + 1 ELSE @,
              !.timeout = @ - p.delta,
              !.pc = IF p.timeout - p.delta > 0 THEN "top" ELSE "timedout"]

\* What follows a wait that a signal interrupted: the callback, the
\* countdown and the loop test.
AfterInterrupt(p) ==
    [p EXCEPT !.errno = "EINTR",
              !.wakes = @ + 1,
              !.calls = IF p.callback THEN @ + 1 ELSE @,
              !.lateCall = @ \/ (p.callback /\ p.seen # "none"),
              !.timeout = @ - p.delta,
              !.pc = IF p.timeout - p.delta > 0 THEN "top" ELSE "timedout"]

\* The alarm goes off while the child still runs: waitpid fails with EINTR.
SysAlarmInterrupts ==
    /\ sys.pc = "wait"
    /\ sys.alarm
    /\ child.state = "running"
    /\ sys' = AfterInterrupt([sys EXCEPT !.alarm = FALSE])
    /\ UNCHANGED <<child, exceptSys>>

\* Another handled signal interrupts the wait.
SysSignalInterrupts ==
    /\ sys.pc = "wait"
    /\ sys.signals < MaxSignals
    /\ child.state = "running"
    /\ sys' = AfterInterrupt([sys EXCEPT !.signals = @ + 1])
    /\ UNCHANGED <<child, exceptSys>>

\* waitpid fails for another reason than a signal.
SysWaitFails ==
    /\ sys.pc = "wait"
    /\ sys' = [sys EXCEPT !.pc = "out", !.retval = -1, !.errno = "ECHILD",
                           !.msg = "wait failed"]
    /\ UNCHANGED <<child, exceptSys>>

\* After the loop: the alarm is turned off, the child killed and waited for.
SysTimedOut ==
    /\ sys.pc = "timedout"
    /\ sys' = [sys EXCEPT !.pc = "out", !.alarm = FALSE, !.retval = -1,
                           !.errno = "EBUSY", !.msg = "timed out",
                           !.waits = @ + 1]
    /\ child' = [child EXCEPT !.state = "reaped"]
    /\ UNCHANGED exceptSys

\* After the loop, with a handled signal other than the alarm arriving in
\* the last waitpid: it fails with EINTR, its result is not looked at, and
\* the killed child stays unreaped.
SysTimedOutInterrupted ==
    /\ sys.pc = "timedout"
    /\ sys.signals < MaxSignals
    /\ sys' = [sys EXCEPT !.pc = "out", !.alarm = FALSE, !.retval = -1,
                           !.errno = "EBUSY", !.msg = "timed out",
                           !.waits = @ + 1, !.signals = @ + 1]
    /\ child' = [child EXCEPT
                   !.state = IF @ = "running" THEN "signaled" ELSE @]
    /\ UNCHANGED exceptSys

\* A bug the claims should notice: the handler of the function stays
\* installed.
SysOutKeepsHandler ==
    /\ sys.pc = "out"
    /\ sys' = [sys EXCEPT !.pc = "returned", !.alarm = FALSE]
    /\ UNCHANGED <<child, exceptSys>>

\* out: the alarm is cancelled, the old handler restored, errno kept.
SysOut ==
    /\ sys.pc = "out"
    /\ sys' = [sys EXCEPT !.pc = "returned", !.alarm = FALSE,
                           !.handler = "old"]
    /\ UNCHANGED <<child, exceptSys>>

\* The exec fails in the child, which exits with 127.
ChildExecFails ==
    /\ child.state = "running"
    /\ child' = [state |-> "exited", status |-> 127]
    /\ UNCHANGED <<sys, exceptSys>>

\* The handler program runs and exits.
ChildExits(code) ==
    /\ child.state = "running"
    /\ child' = [state |-> "exited", status |-> code]
    /\ UNCHANGED <<sys, exceptSys>>

\* A signal kills the child.
ChildKilled ==
    /\ child.state = "running"
    /\ child' = [state |-> "signaled", status |-> 0]
    /\ UNCHANGED <<sys, exceptSys>>

SysNext ==
    \/ SysForkFails
    \/ SysFork
    \/ SysArm
    \/ SysWaitReaps
    \/ SysAlarmInterrupts
    \/ SysSignalInterrupts
    \/ SysWaitFails
    \/ SysTimedOut
    \/ SysTimedOutInterrupted
    \/ SysOut
    \/ ChildExecFails
    \/ \E code \in ExitCodes : ChildExits(code)
    \/ ChildKilled

-----------------------------------------------------------------------------
(* The report entry points: LogFatalProcessState, LogCurrentProcessState,  *)
(* LogStackTrace, and the calls that change what they print.               *)
(* A thread takes one step per access to memory other threads may touch.   *)

\* The number of application threads.
NumThreads == 2

\* How many report calls the threads make in all.
MaxReports == 2

\* How many calls that change the registered state the threads make in all.
MaxSets == 2

Threads == 1..NumThreads

\* sizeof(logfile) in _LogProcessStateHelper.
LogfileSize == 1024

\* maxArgs of _LogStackTraceForPid and _InvokeSessionLogger.
maxArgs == 32

LongTemplate == [i \in 1..(maxArgs - 1) |-> "-p"] \o <<Null>>

\* A template with one entry more than the buffer has slots for entries.
OverlongTemplate == [i \in 1..maxArgs |-> "-p"] \o <<Null>>

FatalTemplate == <<"$cmd", "$pid", "$log", "$reason", Null>>

NonFatalTemplate == <<"$cmd", "$pid", Null>>

\* What SetProcessStateLogCommand, SetLogSession and SetFatalStackLogging
\* have registered, and the two environment variables.
NothingRegistered ==
    [envPostmortem |-> Null, processStateCmd |-> Null,
     nonFatalArgv |-> NullArgv, fatalArgv |-> NullArgv,
     shouldLogStackToDb |-> FALSE, envLogSession |-> Null,
     logStackToDbCmd |-> Null, sessionLogArgv |-> NullArgv,
     sessionCrashLogArgv |-> NullArgv]

AllRegistered ==
    [envPostmortem |-> Null, processStateCmd |-> "/bin/tool",
     nonFatalArgv |-> NonFatalTemplate, fatalArgv |-> FatalTemplate,
     shouldLogStackToDb |-> TRUE, envLogSession |-> Null,
     logStackToDbCmd |-> "/bin/logger",
     sessionLogArgv |-> <<"$cmd", "$prog", Null>>,
     sessionCrashLogArgv |-> <<"$cmd", "$prog", "$stack", Null>>]

\* Templates that do not fit: the fatal one of the postmortem command and
\* the crash one of the session-log command.
TooLongRegistered ==
    [AllRegistered EXCEPT !.fatalArgv = LongTemplate,
                          !.sessionCrashLogArgv = OverlongTemplate]

ReportConfigs == {NothingRegistered, AllRegistered, TooLongRegistered}

ArgvBuffer == [i \in 0..(maxArgs - 1) |-> Untouched]

\* A thread outside every call.  outer holds the call that a signal handler
\* of the thread has interrupted, if there is one.
Idle ==
    [pc |-> "idle", op |-> "none", fatal |-> FALSE, progname |-> 0,
     logged |-> FALSE, fd |-> -1, arg |-> FALSE, outer |-> <<>>]

At(t, l) == th[t].pc = l

\* GetProgramNameForErrors: the buffer, or the literal "libArch" (0) when
\* none is set.
GetProgramNameForErrors == progNameForErrors

\* Whether reading the characters at ptr reads a freed buffer.
Dangling(ptr) == ptr # 0 /\ ptr \notin heap

BadRead(t, ptr) == IF Dangling(ptr) THEN {<<t, "progname">>} ELSE {}

\* A bug the claims should notice: the command is run although _MakeArgv
\* failed.
LogStackTraceForPidRunsAnyway(isFatal, reason) ==
    LET cmd == IF config.envPostmortem # Null THEN config.envPostmortem
               ELSE config.processStateCmd
        cmdArgv == IF isFatal THEN config.fatalArgv ELSE config.nonFatalArgv
    IN  IF cmd = Null \/ cmdArgv = NullArgv
          THEN [ret |-> 0, warn |-> FALSE, run |-> FALSE, argv |-> ArgvBuffer]
        ELSE [ret |-> 1, warn |-> FALSE, run |-> TRUE, argv |-> ArgvBuffer]

\* A bug the claims should notice: the registered command comes before the
\* environment variable.
LogStackTraceForPidRegisteredFirst(isFatal, reason) ==
    LET cmd == IF config.processStateCmd # Null THEN config.processStateCmd
               ELSE config.envPostmortem
        cmdArgv == IF isFatal THEN config.fatalArgv ELSE config.nonFatalArgv
        made == MakeArgv(ArgvBuffer, maxArgs, cmd, cmdArgv,
                         CallerSubs(reason))
    IN  IF cmd = Null \/ cmdArgv = NullArgv
          THEN [ret |-> 0, warn |-> FALSE, run |-> FALSE, argv |-> ArgvBuffer]
        ELSE IF ~made.ret
          THEN [ret |-> 0, warn |-> TRUE, run |-> FALSE, argv |-> ArgvBuffer]
        ELSE [ret |-> 1, warn |-> FALSE, run |-> TRUE, argv |-> made.dst]

\* _LogStackTraceForPid: which command it runs, if any, what it hands to
\* CrashHandlerSystemv and what it returns.
LogStackTraceForPid(isFatal, reason) ==
    LET cmd == IF config.envPostmortem # Null THEN config.envPostmortem
               ELSE config.processStateCmd
        cmdArgv == IF isFatal THEN config.fatalArgv ELSE config.nonFatalArgv
        made == MakeArgv(ArgvBuffer, maxArgs, cmd, cmdArgv,
                         CallerSubs(reason))
    IN  IF cmd = Null \/ cmdArgv = NullArgv
          THEN [ret |-> 0, warn |-> FALSE, run |-> FALSE, argv |-> ArgvBuffer]
        ELSE IF ~made.ret
          THEN [ret |-> 0, warn |-> TRUE, run |-> FALSE, argv |-> ArgvBuffer]
        ELSE [ret |-> 1, warn |-> FALSE, run |-> TRUE, argv |-> made.dst]

\* _InvokeSessionLogger: whether it runs the command or warns.
InvokeSessionLogger(stackTrace) ==
    LET cmd == IF config.envLogSession # Null THEN config.envLogSession
               ELSE config.logStackToDbCmd
        srcArgv == IF stackTrace # Null THEN config.sessionCrashLogArgv
                   ELSE config.sessionLogArgv
        subs == << <<"$pid", "1234">>, <<"$time", "7">>,
                   <<"$prog", "prog">>, <<"$stack", stackTrace>> >>
    IN  IF cmd = Null \/ srcArgv = NullArgv
          THEN [warn |-> FALSE, run |-> FALSE]
        ELSE IF ~MakeArgv(ArgvBuffer, maxArgs, cmd, srcArgv, subs).ret
          THEN [warn |-> TRUE, run |-> FALSE]
        ELSE [warn |-> FALSE, run |-> TRUE]

\* _FinishLoggingFatalStackTrace: whether the session log is appended to the
\* stack trace file (sessionLog says whether one is given), and what the
\* session logger does.
FinishLoggingFatalStackTrace(stackTrace, sessionLog, crashingHard) ==
    LET r == IF config.shouldLogStackToDb THEN InvokeSessionLogger(stackTrace)
             ELSE [warn |-> FALSE, run |-> FALSE]
    IN  [append |-> ~crashingHard /\ sessionLog, warn |-> r.warn,
         run |-> r.run]

\* _FinishLoggingFatalStackTrace is not called.
NotFinished == [append |-> FALSE, warn |-> FALSE, run |-> FALSE]

\* _GetStackTraceName run to its end by one caller: the opens and the code
\* between them.
RECURSIVE TraceNameFrom(_, _, _)
TraceNameFrom(g, files, who) ==
    IF g.pc = "open"
      THEN LET r == OpenExclusive(files, g.buf, who)
           IN  TraceNameFrom(AfterOpen(g, r), r.files, who)
      ELSE [g |-> g, files |-> files]

GetStackTraceName(files, who) ==
    TraceNameFrom([pc |-> "open", suffix |-> 0, buf |-> DefaultName,
                   fd |-> -1, errno |-> "0"], files, who)

ReportStart ==
    /\ th = [t \in Threads |-> Idle]
    /\ busy = FALSE
    /\ isCrashing = 0
    /\ progNameForErrors = 0
    /\ heap = {}
    /\ nextBuf = 1
    /\ progInfoMutex = 0
    /\ infoFreed = FALSE
    /\ logInfoForErrors = {}
    /\ logInfoMutex = 0
    /\ errStream = <<>>
    /\ cmdLog = <<>>
    /\ fatalReturned = FALSE
    /\ badReads = {}

ReportInit ==
    /\ ReportStart
    /\ config \in ReportConfigs

ReportIdle ==
    /\ ReportInit
    /\ config = NothingRegistered
    /\ quota = [reports |-> 0, sets |-> 0]

\* The variables a step of a report leaves alone unless it names them.
ReportFrame(changed) ==
    /\ IF "busy" \in changed THEN TRUE ELSE UNCHANGED busy
    /\ IF "isCrashing" \in changed THEN TRUE ELSE UNCHANGED isCrashing
    /\ IF "name" \in changed THEN TRUE
       ELSE UNCHANGED <<progNameForErrors, heap, nextBuf>>
    /\ IF "info" \in changed THEN TRUE
       ELSE UNCHANGED <<progInfoMap, progInfoForErrors, progInfoMutex,
                        infoFreed>>
    /\ IF "logInfo" \in changed THEN TRUE
       ELSE UNCHANGED <<logInfoForErrors, logInfoMutex>>
    /\ IF "err" \in changed THEN TRUE ELSE UNCHANGED errStream
    /\ IF "quota" \in changed THEN TRUE ELSE UNCHANGED quota
    /\ IF "cmd" \in changed THEN TRUE ELSE UNCHANGED cmdLog
    /\ IF "files" \in changed THEN TRUE ELSE UNCHANGED fsFiles
    /\ IF "returned" \in changed THEN TRUE ELSE UNCHANGED fatalReturned
    /\ IF "reads" \in changed THEN TRUE ELSE UNCHANGED badReads
    /\ UNCHANGED <<config, exceptReport>>

Goto(t, l) == th' = [th EXCEPT ![t].pc = l]

\* The return of a call: the thread is idle again, or, when the call was
\* made by a signal handler, back in the call that was interrupted.
Return(t) ==
    th' = [th EXCEPT ![t] = IF @.outer = <<>> THEN Idle ELSE @.outer[1]]

\* A line on stderr: who wrote it, inside which call, and what it says.
Line(t, what) == <<t, th[t].op, what>>

Say(t, what) == errStream' = Append(errStream, Line(t, what))

\* A command run by CrashHandlerSystemv, or a session log appended to a
\* stack trace file: who did it, inside which call, whether that call is
\* fatal, and what it is.
Cmd(t, kind) == <<t, th[t].op, th[t].fatal, kind>>

\* ---- the calls

CallLogFatalProcessState(t) ==
    /\ At(t, "idle")
    /\ quota.reports > 0
    /\ quota' = [quota EXCEPT !.reports = @ - 1]
    /\ th' = [th EXCEPT ![t] = [Idle EXCEPT !.pc = "spin", !.op = "fatal",
                                            !.fatal = TRUE]]
    /\ ReportFrame({"quota"})

CallLogCurrentProcessState(t) ==
    /\ At(t, "idle")
    /\ quota.reports > 0
    /\ quota' = [quota EXCEPT !.reports = @ - 1]
    /\ th' = [th EXCEPT ![t] = [Idle EXCEPT !.pc = "spin", !.op = "current"]]
    /\ ReportFrame({"quota"})

CallLogStackTrace(t, fatal) ==
    /\ At(t, "idle")
    /\ quota.reports > 0
    /\ quota' = [quota EXCEPT !.reports = @ - 1]
    /\ th' = [th EXCEPT ![t] = [Idle EXCEPT !.pc = "st_name", !.op = "stack",
                                            !.fatal = fatal]]
    /\ ReportFrame({"quota"})

\* A fault signal is delivered to a thread inside _LogProcessStateHelper,
\* and its handler calls LogFatalProcessState on that thread: the call that
\* was running is suspended until the handler returns.
FaultWhileReporting(t) ==
    /\ th[t].op \in {"fatal", "current"}
    /\ th[t].pc \notin {"idle", "exited"}
    /\ th[t].outer = <<>>
    /\ quota.reports > 0
    /\ quota' = [quota EXCEPT !.reports = @ - 1]
    /\ th' = [th EXCEPT ![t] = [Idle EXCEPT !.pc = "spin", !.op = "fatal",
                                            !.fatal = TRUE,
                                            !.outer = <<th[t]>>]]
    /\ ReportFrame({"quota"})

\* ---- _LogProcessStateHelper

\* A bug the claims should notice: the flag is tested and set in two steps,
\* so a thread may pass while another holds it.
RpAcquireUnguarded(t) ==
    /\ At(t, "spin")
    /\ busy' = TRUE
    /\ Goto(t, "crashing")
    /\ ReportFrame({"busy"})

\* busy.test_and_set returns false: the flag was clear and is now set.  A
\* call that returns true changes nothing and the thread spins.
RpAcquire(t) ==
    /\ At(t, "spin")
    /\ ~busy
    /\ busy' = TRUE
    /\ Goto(t, "crashing")
    /\ ReportFrame({"busy"})

\* A bug the claims should notice: every report marks the app as crashing.
RpSetCrashingAlways(t) ==
    /\ At(t, "crashing")
    /\ isCrashing' = 1
    /\ Goto(t, "progname")
    /\ ReportFrame({"isCrashing"})

\* A bug the claims should notice: a fatal report leaves the flag alone.
RpSetCrashingNever(t) ==
    /\ At(t, "crashing")
    /\ Goto(t, "progname")
    /\ ReportFrame({})

\* if (isFatal) _SetAppIsCrashing(true)
RpSetCrashing(t) ==
    /\ At(t, "crashing")
    /\ isCrashing' = IF th[t].fatal THEN 1 ELSE isCrashing
    /\ Goto(t, "progname")
    /\ ReportFrame({"isCrashing"})

\* progname = GetProgramNameForErrors(): the pointer is kept.
RpProgName(t) ==
    /\ At(t, "progname")
    /\ th' = [th EXCEPT ![t].pc = "debugger",
                        ![t].progname = GetProgramNameForErrors]
    /\ ReportFrame({})

\* DebuggerAttach succeeds: the process traps and exits, every thread with it.
RpDebuggerTrap(t) ==
    /\ At(t, "debugger")
    /\ th' = [u \in Threads |-> [Idle EXCEPT !.pc = "exited"]]
    /\ ReportFrame({})

RpNoDebugger(t) ==
    /\ At(t, "debugger")
    /\ Goto(t, "logname")
    /\ ReportFrame({})

\* A bug the claims should notice: the command is run right after the file
\* is created.
RpLogFileThenCommand(t) ==
    /\ At(t, "logname")
    /\ LET r == GetStackTraceName(fsFiles, t)
       IN  /\ r.g.pc = "created"
           /\ fsFiles' = r.files
    /\ Goto(t, "postmortem")
    /\ ReportFrame({"files"})

\* _GetStackTraceName creates the log file.
RpLogFile(t) ==
    /\ At(t, "logname")
    /\ LET r == GetStackTraceName(fsFiles, t)
       IN  /\ r.g.pc = "created"
           /\ fsFiles' = r.files
    /\ Goto(t, "writefile")
    /\ ReportFrame({"files"})

\* A bug the claims should notice: the early return forgets busy.clear.
RpLogFileFailsKeepsBusy(t) ==
    /\ At(t, "logname")
    /\ Say(t, "cannot create")
    /\ fatalReturned' = (fatalReturned \/ th[t].fatal)
    /\ Return(t)
    /\ ReportFrame({"err", "returned"})

\* _GetStackTraceName returns -1: the warning, the release and the return.
RpLogFileFails(t) ==
    /\ At(t, "logname")
    /\ Say(t, "cannot create")
    /\ busy' = FALSE
    /\ fatalReturned' = (fatalReturned \/ th[t].fatal)
    /\ Return(t)
    /\ ReportFrame({"err", "busy", "returned"})

\* The reason, the message and the extra log info go to the log file; the
\* extra log info is read under its mutex.
RpWriteFile(t) ==
    /\ At(t, "writefile")
    /\ logInfoMutex = 0
    /\ \E f \in fsFiles :
          /\ f.by = t /\ f.data = "empty"
          /\ fsFiles' = (fsFiles \ {f}) \cup {[f EXCEPT !.data = "report"]}
    /\ Goto(t, "banner")
    /\ ReportFrame({"files"})

\* OpenFile(logfile, "a") returns null: nothing is written to the file,
\* which is left as it was created, and the report goes on.
RpOpenFails(t) ==
    /\ At(t, "writefile")
    /\ \E f \in fsFiles :
          /\ f.by = t /\ f.data = "empty"
          /\ fsFiles' = (fsFiles \ {f}) \cup {[f EXCEPT !.data = "unopened"]}
    /\ Goto(t, "banner")
    /\ ReportFrame({"files"})

\* The banner: strlen(progname) and fputs(progname) read the buffer.
RpBanner(t) ==
    /\ At(t, "banner")
    /\ Say(t, "banner")
    /\ badReads' = badReads \cup BadRead(t, th[t].progname)
    /\ Goto(t, "info")
    /\ ReportFrame({"err", "reads"})

\* PrintInfoForErrors: the snapshot is printed under its mutex.
RpPrintInfo(t) ==
    /\ At(t, "info")
    /\ progInfoMutex = 0
    /\ Say(t, "info")
    /\ badReads' = badReads \cup
                     (IF infoFreed THEN {<<t, "snapshot">>} ELSE {})
    /\ Goto(t, "postmortem")
    /\ ReportFrame({"err", "reads"})

\* The reason, "writing crash report to", and _LogStackTraceForPid.
RpPostMortem(t) ==
    /\ At(t, "postmortem")
    /\ LET r == LogStackTraceForPid(th[t].fatal, "reason")
       IN  /\ errStream' =
                errStream \o <<Line(t, "writing")>>
                \o (IF r.warn THEN <<Line(t, "too many arguments")>> ELSE <<>>)
           /\ cmdLog' = IF r.run
                          THEN Append(cmdLog, Cmd(t, "postmortem"))
                          ELSE cmdLog
           /\ th' = [th EXCEPT ![t].pc = "done", ![t].logged = (r.ret = 1)]
    /\ ReportFrame({"err", "cmd"})

\* " done.", the first lines of the extra log info, and the closing rule.
RpDone(t) ==
    /\ At(t, "done")
    /\ logInfoMutex = 0
    /\ Say(t, "done")
    /\ Goto(t, "finish")
    /\ ReportFrame({"err"})

\* _FinishLoggingFatalStackTrace if a command was run; it hands progname to
\* the session logger.
RpFinish(t) ==
    /\ At(t, "finish")
    /\ LET r == IF th[t].logged
                  THEN FinishLoggingFatalStackTrace("logfile", FALSE, TRUE)
                ELSE NotFinished
       IN  /\ errStream' = IF r.warn
                             THEN Append(errStream, Line(t, "too many arguments"))
                             ELSE errStream
           /\ cmdLog' = IF r.run
                          THEN Append(cmdLog, Cmd(t, "session"))
                          ELSE cmdLog
           /\ badReads' = badReads \cup
                            (IF r.run THEN BadRead(t, th[t].progname) ELSE {})
    /\ Goto(t, "release")
    /\ ReportFrame({"err", "cmd", "reads"})

\* A bug the claims should notice: the normal path returns without
\* busy.clear.
RpReleaseKeepsBusy(t) ==
    /\ At(t, "release")
    /\ fatalReturned' = (fatalReturned \/ th[t].fatal)
    /\ Return(t)
    /\ ReportFrame({"returned"})

\* busy.clear and the return.
RpRelease(t) ==
    /\ At(t, "release")
    /\ busy' = FALSE
    /\ fatalReturned' = (fatalReturned \/ th[t].fatal)
    /\ Return(t)
    /\ ReportFrame({"busy", "returned"})

\* ---- LogStackTrace

\* LogStackTrace(reason, fatal, sessionLog) reads the program name pointer.
StName(t) ==
    /\ At(t, "st_name")
    /\ th' = [th EXCEPT ![t].pc = "st_copy",
                        ![t].progname = GetProgramNameForErrors]
    /\ ReportFrame({})

\* The std::string progname is built from the pointer; from here on the
\* thread has its own copy.
StCopy(t) ==
    /\ At(t, "st_copy")
    /\ badReads' = badReads \cup BadRead(t, th[t].progname)
    /\ th' = [th EXCEPT ![t].pc = "st_tmp", ![t].progname = 0]
    /\ ReportFrame({"reads"})

\* MakeTmpFile, named after the program name read once more; the file is
\* made or not.  Temp files of this kind share no name with the log files.
\* The header line follows; errStream keeps one entry per LogStackTrace
\* call, the one of the trace itself.
StTmpFile(t, made) ==
    /\ At(t, "st_tmp")
    /\ badReads' = badReads \cup BadRead(t, GetProgramNameForErrors)
    /\ th' = [th EXCEPT ![t].pc = "st_info",
                        ![t].fd = IF made THEN 3 ELSE -1]
    /\ ReportFrame({"reads"})

\* PrintInfoForErrors.
StPrintInfo(t) ==
    /\ At(t, "st_info")
    /\ progInfoMutex = 0
    /\ badReads' = badReads \cup
                     (IF infoFreed THEN {<<t, "snapshot">>} ELSE {})
    /\ Goto(t, "st_trace")
    /\ ReportFrame({"reads"})

\* The trace goes to the temp file, with the extra log info if fatal, or to
\* stderr with the extra log info when there is no file.
StTrace(t) ==
    /\ At(t, "st_trace")
    /\ (th[t].fd # -1 /\ ~th[t].fatal) \/ logInfoMutex = 0
    /\ Say(t, IF th[t].fd # -1 THEN "stack is in file" ELSE "stack trace")
    /\ Goto(t, "st_finish")
    /\ ReportFrame({"err"})

\* A bug the claims should notice: a fatal trace is finished whether it has
\* a file or not.
StFinishWithoutFile(t, sessionLog) ==
    /\ At(t, "st_finish")
    /\ LET r == IF th[t].fatal
                  THEN FinishLoggingFatalStackTrace("tmpfile", sessionLog,
                                                    FALSE)
                  ELSE NotFinished
       IN  /\ errStream' =
                IF r.warn THEN Append(errStream, Line(t, "too many arguments"))
                ELSE errStream
           /\ cmdLog' =
                cmdLog
                \o (IF r.append THEN <<Cmd(t, "append session log")>>
                    ELSE <<>>)
                \o (IF r.run THEN <<Cmd(t, "session")>> ELSE <<>>)
    /\ Return(t)
    /\ ReportFrame({"err", "cmd"})

\* _FinishLoggingFatalStackTrace for a fatal trace that has a file, the
\* closing rule and the return.  sessionLog: the caller gave a session log.
StFinish(t, sessionLog) ==
    /\ At(t, "st_finish")
    /\ LET r == IF th[t].fd # -1 /\ th[t].fatal
                  THEN FinishLoggingFatalStackTrace("tmpfile", sessionLog,
                                                    FALSE)
                  ELSE NotFinished
       IN  /\ errStream' =
                IF r.warn THEN Append(errStream, Line(t, "too many arguments"))
                ELSE errStream
           /\ cmdLog' =
                cmdLog
                \o (IF r.append THEN <<Cmd(t, "append session log")>>
                    ELSE <<>>)
                \o (IF r.run THEN <<Cmd(t, "session")>> ELSE <<>>)
    /\ Return(t)
    /\ ReportFrame({"err", "cmd"})

\* ---- LogSessionInfo

\* LogSessionInfo(crashStackTrace), which the exit hook calls with no stack
\* trace: the session logger if _shouldLogStackToDb, given the program name.
CallLogSessionInfo(t, crashStackTrace) ==
    /\ At(t, "idle")
    /\ quota.reports > 0
    /\ quota' = [quota EXCEPT !.reports = @ - 1]
    /\ LET r == IF config.shouldLogStackToDb
                  THEN InvokeSessionLogger(crashStackTrace)
                ELSE [warn |-> FALSE, run |-> FALSE]
       IN  /\ errStream' =
                IF r.warn THEN Append(errStream, Line(t, "too many arguments"))
                ELSE errStream
           /\ cmdLog' =
                IF r.run
                  THEN Append(cmdLog,
                              Cmd(t, IF crashStackTrace = Null
                                       THEN "session info"
                                     ELSE "session crash info"))
                ELSE cmdLog
           /\ badReads' = badReads \cup
                            (IF r.run THEN BadRead(t, GetProgramNameForErrors)
                             ELSE {})
    /\ UNCHANGED th
    /\ ReportFrame({"quota", "err", "cmd", "reads"})

\* ---- the calls that change what the reports print

CallSetProgramNameForErrors(t, isNull) ==
    /\ At(t, "idle")
    /\ quota.sets > 0
    /\ quota' = [quota EXCEPT !.sets = @ - 1]
    /\ th' = [th EXCEPT ![t] = [Idle EXCEPT !.pc = "sn_free", !.op = "name",
                                            !.arg = isNull]]
    /\ ReportFrame({"quota"})

\* if (_progNameForErrors) free(_progNameForErrors)
SnFree(t) ==
    /\ At(t, "sn_free")
    /\ heap' = heap \ {progNameForErrors}
    /\ Goto(t, "sn_assign")
    /\ UNCHANGED <<progNameForErrors, nextBuf>>
    /\ ReportFrame({"name"})

\* _progNameForErrors = strdup(...) or nullptr
SnAssign(t) ==
    /\ At(t, "sn_assign")
    /\ IF th[t].arg
         THEN /\ progNameForErrors' = 0
              /\ UNCHANGED <<heap, nextBuf>>
         ELSE /\ progNameForErrors' = nextBuf
              /\ heap' = heap \cup {nextBuf}
              /\ nextBuf' = nextBuf + 1
    /\ Return(t)
    /\ ReportFrame({"name"})

CallSetProgramInfoForErrors(t, isEmpty) ==
    /\ At(t, "idle")
    /\ quota.sets > 0
    /\ quota' = [quota EXCEPT !.sets = @ - 1]
    /\ th' = [th EXCEPT ![t] = [Idle EXCEPT !.pc = "si_lock", !.op = "info",
                                            !.arg = isEmpty]]
    /\ ReportFrame({"quota"})

\* The lock_guard of SetProgramInfoForErrors.
SiLock(t) ==
    /\ At(t, "si_lock")
    /\ progInfoMutex = 0
    /\ progInfoMutex' = t
    /\ Goto(t, "si_free")
    /\ UNCHANGED <<progInfoMap, progInfoForErrors, infoFreed>>
    /\ ReportFrame({"info"})

\* The map is updated and the old snapshot freed.
SiFree(t) ==
    /\ At(t, "si_free")
    /\ progInfoMap' = UpdateMap(progInfoMap, <<97>>,
                                IF th[t].arg THEN <<>> ELSE <<120>>)
    /\ infoFreed' = (progInfoForErrors # NullStr)
    /\ Goto(t, "si_assign")
    /\ UNCHANGED <<progInfoForErrors, progInfoMutex>>
    /\ ReportFrame({"info"})

\* The new snapshot is stored and the mutex released.
SiAssign(t) ==
    /\ At(t, "si_assign")
    /\ progInfoForErrors' = CStr(PrintMap(progInfoMap, 1))
    /\ infoFreed' = FALSE
    /\ progInfoMutex' = 0
    /\ Return(t)
    /\ UNCHANGED progInfoMap
    /\ ReportFrame({"info"})

CallSetExtraLogInfoForErrors(t, isEmpty) ==
    /\ At(t, "idle")
    /\ quota.sets > 0
    /\ quota' = [quota EXCEPT !.sets = @ - 1]
    /\ th' = [th EXCEPT ![t] = [Idle EXCEPT !.pc = "sl_lock", !.op = "logInfo",
                                            !.arg = isEmpty]]
    /\ ReportFrame({"quota"})

\* The lock_guard of SetExtraLogInfoForErrors.
SlLock(t) ==
    /\ At(t, "sl_lock")
    /\ logInfoMutex = 0
    /\ logInfoMutex' = t
    /\ Goto(t, "sl_update")
    /\ UNCHANGED logInfoForErrors
    /\ ReportFrame({"logInfo"})

\* The key is erased or stored, and the mutex released.
SlUpdate(t) ==
    /\ At(t, "sl_update")
    /\ logInfoForErrors' = IF th[t].arg THEN logInfoForErrors \ {"key"}
                           ELSE logInfoForErrors \cup {"key"}
    /\ logInfoMutex' = 0
    /\ Return(t)
    /\ ReportFrame({"logInfo"})

ReportNext ==
    \/ \E t \in Threads : CallLogFatalProcessState(t)
    \/ \E t \in Threads : CallLogCurrentProcessState(t)
    \/ \E t \in Threads, fatal \in BOOLEAN : CallLogStackTrace(t, fatal)
    \/ \E t \in Threads : RpAcquire(t)
    \/ \E t \in Threads : RpSetCrashing(t)
    \/ \E t \in Threads : RpProgName(t)
    \/ \E t \in Threads : RpDebuggerTrap(t)
    \/ \E t \in Threads : RpNoDebugger(t)
    \/ \E t \in Threads : RpLogFile(t)
    \/ \E t \in Threads : RpLogFileFails(t)
    \/ \E t \in Threads : RpWriteFile(t)
    \/ \E t \in Threads : RpBanner(t)
    \/ \E t \in Threads : RpPrintInfo(t)
    \/ \E t \in Threads : RpPostMortem(t)
    \/ \E t \in Threads : RpDone(t)
    \/ \E t \in Threads : RpFinish(t)
    \/ \E t \in Threads : RpRelease(t)
    \/ \E t \in Threads : StName(t)
    \/ \E t \in Threads : StCopy(t)
    \/ \E t \in Threads, made \in BOOLEAN : StTmpFile(t, made)
    \/ \E t \in Threads : StPrintInfo(t)
    \/ \E t \in Threads : StTrace(t)
    \/ \E t \in Threads, sessionLog \in BOOLEAN : StFinish(t, sessionLog)

\* The steps of thread t inside a call it has made.
ReportStep(t) ==
    \/ RpAcquire(t) \/ RpSetCrashing(t) \/ RpProgName(t)
    \/ RpDebuggerTrap(t) \/ RpNoDebugger(t)
    \/ RpLogFile(t) \/ RpLogFileFails(t) \/ RpWriteFile(t)
    \/ RpBanner(t) \/ RpPrintInfo(t) \/ RpPostMortem(t) \/ RpDone(t)
    \/ RpFinish(t) \/ RpRelease(t)
    \/ StName(t) \/ StCopy(t) \/ (\E made \in BOOLEAN : StTmpFile(t, made))
    \/ StPrintInfo(t) \/ StTrace(t)
    \/ (\E sessionLog \in BOOLEAN : StFinish(t, sessionLog))

\* The reports beside LogSessionInfo, as the exit hook and the callers of
\* the library run it.
SessionNext ==
    \/ ReportNext
    \/ \E t \in Threads, crashStackTrace \in {Null, "stack"} :
          CallLogSessionInfo(t, crashStackTrace)

\* The reports, with a log file that may fail to be opened again.
OrderNext ==
    \/ ReportNext
    \/ \E t \in Threads : RpOpenFails(t)

\* The reports, with fault signals whose handlers report.
NestedNext ==
    \/ ReportNext
    \/ \E t \in Threads : FaultWhileReporting(t)

RaceNext ==
    \/ ReportNext
    \/ \E t \in Threads, isNull \in BOOLEAN : CallSetProgramNameForErrors(t, isNull)
    \/ \E t \in Threads : SnFree(t)
    \/ \E t \in Threads : SnAssign(t)
    \/ \E t \in Threads, isEmpty \in BOOLEAN :
          CallSetProgramInfoForErrors(t, isEmpty)
    \/ \E t \in Threads : SiLock(t)
    \/ \E t \in Threads : SiFree(t)
    \/ \E t \in Threads : SiAssign(t)
    \/ \E t \in Threads, isEmpty \in BOOLEAN :
          CallSetExtraLogInfoForErrors(t, isEmpty)
    \/ \E t \in Threads : SlLock(t)
    \/ \E t \in Threads : SlUpdate(t)

-----------------------------------------------------------------------------
(* The specifications.                                                     *)

-----------------------------------------------------------------------------
(* _GetStackTrace and the stack trace callback.                            *)

\* The longest frame list, and the most calls of SetStackTraceCallback.
MaxFrames == 3

MaxInstalls == 2

\* Return addresses that frames hold.
FrameAddrs == {8, 17, 40}

\* What GetAddressInfo knows: the symbols and where they start.
SymbolTable == {[addr |-> 16, name |-> "main"], [addr |-> 32, name |-> "run"]}

\* A std::function that holds nothing, and the ones a program may install.
EmptyCallback == "empty"

Callbacks == {"cbA", "cbB"}

\* The symbolic name of a frame that no symbol covers.  A symbolic name is a
\* sequence of pieces of text.
Unknown == <<"<unknown>">>

DecChars == <<"0", "1", "2", "3", "4", "5", "6", "7", "8", "9">>

HexChars == DecChars \o <<"a", "b", "c", "d", "e", "f">>

\* %i: the decimal digits of a number that is not negative.
RECURSIVE Decimal(_)
Decimal(n) ==
    IF n < 10 THEN <<DecChars[n + 1]>>
    ELSE Decimal(n \div 10) \o <<DecChars[(n % 10) + 1]>>

\* %lx: the hexadecimal digits.
RECURSIVE Hexadecimal(_)
Hexadecimal(x) ==
    IF x < 16 THEN <<HexChars[x + 1]>>
    ELSE Hexadecimal(x \div 16) \o <<HexChars[(x % 16) + 1]>>

\* _DefaultStackTraceCallback: the closest symbol not after address - 1, as
\* "name+offset", or "<unknown>".
DefaultStackTraceCallback(address) ==
    LET before == {y \in SymbolTable : y.addr <= address - 1}
    IN  IF before = {} THEN Unknown
        ELSE LET y == CHOOSE z \in before : \A w \in before : w.addr <= z.addr
             IN  <<y.name, "+", "0x">> \o Hexadecimal(address - y.addr)

\* callback(frames[i]): cbA names every frame; cbB knows no symbol at 40 and
\* gives a name that only starts with "<unknown>" at 8.
Symbolic(callback, address) ==
    IF callback = "default" THEN DefaultStackTraceCallback(address)
    ELSE IF callback = "cbA" THEN <<"A">> \o Decimal(address)
    ELSE IF address = 40 THEN Unknown
    ELSE IF address = 8 THEN <<"<unknown>", "?">>
    ELSE <<"B">> \o Decimal(address)

\* %-3i: the digits, then blanks up to three columns.
RECURSIVE PadRight(_, _)
PadRight(chars, width) ==
    IF Len(chars) >= width THEN chars ELSE PadRight(chars \o <<" ">>, width)

\* %016lx: sixteen hexadecimal digits, zeros first.
RECURSIVE HexDigits(_, _)
HexDigits(x, width) ==
    IF width = 0 THEN <<>>
    ELSE HexDigits(x \div 16, width - 1) \o <<HexChars[(x % 16) + 1]>>

\* StringPrintf(" #%-3i 0x%016lx in %s", n, frame, symbolic)
FrameLine(n, frame, symbolic) ==
    <<" #">> \o PadRight(Decimal(n), 3) \o <<" 0x">> \o HexDigits(frame, 16)
    \o <<" in ">> \o symbolic

NoFramesLine ==
    <<"No frames saved, stack traces probably not supported on this architecture.">>

\* A bug the claims should notice: a skipped frame uses up an index.
RECURSIVE GetStackTraceFromCountsSkipped(_, _, _, _, _, _)
GetStackTraceFromCountsSkipped(frames, skipUnknownFrames, callback, i, n, rv) ==
    IF i > Len(frames) THEN rv
    ELSE LET symbolic == Symbolic(callback, frames[i])
         IN  IF skipUnknownFrames /\ symbolic = Unknown
               THEN GetStackTraceFromCountsSkipped(
                        frames, skipUnknownFrames, callback, i + 1, n + 1, rv)
             ELSE GetStackTraceFromCountsSkipped(
                      frames, skipUnknownFrames, callback, i + 1, n + 1,
                      Append(rv, FrameLine(n, frames[i], symbolic)))

\* The for loop of _GetStackTrace from frame i on (the first frame is 1
\* here), n being the next index and rv the lines so far.
RECURSIVE GetStackTraceFrom(_, _, _, _, _, _)
GetStackTraceFrom(frames, skipUnknownFrames, callback, i, n, rv) ==
    IF i > Len(frames) THEN rv
    ELSE LET symbolic == Symbolic(callback, frames[i])
         IN  IF skipUnknownFrames /\ symbolic = Unknown
               THEN GetStackTraceFrom(frames, skipUnknownFrames, callback,
                                      i + 1, n, rv)
             ELSE GetStackTraceFrom(
                      frames, skipUnknownFrames, callback, i + 1, n + 1,
                      Append(rv, FrameLine(n, frames[i], symbolic)))

NoTrace ==
    [pc |-> "idle", frames |-> <<>>, skipUnknownFrames |-> FALSE,
     callback |-> EmptyCallback, rv |-> <<>>]

\* Nothing is installed at the start: the static std::function is empty.
\* got is the std::function that GetStackTraceCallback is given to fill,
\* events the history of the calls that install a callback or start a
\* trace, and nullGets whether GetStackTraceCallback(nullptr) was called.
TraceStart ==
    [installed |-> EmptyCallback, got |-> "untouched", nullGets |-> FALSE,
     events |-> <<>>, call |-> NoTrace]

TraceIdle == tr = TraceStart

TraceInit == tr = TraceStart

Installs == Len(SelectSeq(tr.events, LAMBDA e : e[1] = "set"))

\* SetStackTraceCallback(cb), before the call of _GetStackTrace or while
\* it runs; the history ends when that call returns.
SetStackTraceCallback(cb) ==
    /\ Installs < MaxInstalls
    /\ tr.call.pc # "done"
    /\ tr' = [tr EXCEPT !.installed = cb,
                        !.events = Append(@, <<"set", cb>>)]
    /\ UNCHANGED <<argvVars, infoVars, nameVars, sysVars, reportVars,
                   postVars, laterVars>>

\* GetStackTraceCallback(cb): *cb is written unless cb is null.
GetStackTraceCallback(isNull) ==
    /\ tr.call.pc # "done"
    /\ tr' = [tr EXCEPT !.got = IF isNull THEN @ ELSE tr.installed,
                        !.nullGets = @ \/ isNull]
    /\ tr' # tr
    /\ UNCHANGED <<argvVars, infoVars, nameVars, sysVars, reportVars,
                   postVars, laterVars>>

\* _GetStackTrace(frames, skipUnknownFrames) up to the loop: the line for an
\* empty list, or the copy of the installed callback, the default in its
\* place if it is empty.
GtStart(frames, skipUnknownFrames) ==
    /\ tr.call.pc = "idle"
    /\ tr' = [tr EXCEPT
                !.events = Append(@, <<"trace">>),
                !.call =
                   IF frames = <<>>
                     THEN [NoTrace EXCEPT !.pc = "done",
                              !.skipUnknownFrames = skipUnknownFrames,
                              !.rv = <<NoFramesLine>>]
                   ELSE [pc |-> "loop", frames |-> frames,
                         skipUnknownFrames |-> skipUnknownFrames,
                         callback |-> IF tr.installed = EmptyCallback
                                        THEN "default" ELSE tr.installed,
                         rv |-> <<>>]]
    /\ UNCHANGED <<argvVars, infoVars, nameVars, sysVars, reportVars,
                   postVars, laterVars>>

\* A bug the claims should notice: the loop asks for the installed callback
\* again instead of using its copy.
GtLoopLatest ==
    /\ tr.call.pc = "loop"
    /\ tr' = [tr EXCEPT
                !.call.pc = "done",
                !.call.callback = IF tr.installed = EmptyCallback
                                    THEN "default" ELSE tr.installed,
                !.call.rv = GetStackTraceFrom(
                               tr.call.frames, tr.call.skipUnknownFrames,
                               IF tr.installed = EmptyCallback
                                 THEN "default" ELSE tr.installed,
                               1, 0, <<>>)]
    /\ UNCHANGED <<argvVars, infoVars, nameVars, sysVars, reportVars,
                   postVars, laterVars>>

\* The loop and the return.
GtLoop ==
    /\ tr.call.pc = "loop"
    /\ tr' = [tr EXCEPT
                !.call.pc = "done",
                !.call.rv = GetStackTraceFrom(
                               tr.call.frames, tr.call.skipUnknownFrames,
                               tr.call.callback, 1, 0, <<>>)]
    /\ UNCHANGED <<argvVars, infoVars, nameVars, sysVars, reportVars,
                   postVars, laterVars>>

TraceNext ==
    \/ \E cb \in Callbacks \cup {EmptyCallback} : SetStackTraceCallback(cb)
    \/ \E isNull \in BOOLEAN : GetStackTraceCallback(isNull)
    \/ \E frames \in SeqsUpTo(FrameAddrs, MaxFrames),
          skipUnknownFrames \in BOOLEAN : GtStart(frames, skipUnknownFrames)
    \/ GtLoop

-----------------------------------------------------------------------------
(* GetStackFrames on the Linux unwinder.                                   *)

\* The deepest call stack; maxdepth and skip go one beyond it.
MaxStack == 3

\* The return addresses of a call stack of depth d, innermost first.
CallStack(d) == [i \in 1..d |-> 4096 + (16 * i)]

UwIdle == uw = [pc |-> "idle"]

\* What is left unchanged by the walk.
exceptUw == <<firstVars, li, me, fc>>

\* GetStackFrames(maxdepth, skip, frames) with an empty vector, up to
\* _Unwind_Backtrace: reserve gives the vector room for maxdepth entries,
\* and the context is built.  next is the frame the unwinder visits next.
GetStackFrames(maxdepth, skip, d) ==
    /\ uw.pc = "idle"
    /\ uw' = [pc |-> "walk", stack |-> CallStack(d), next |-> 1,
              args |-> [maxdepth |-> maxdepth, skip |-> skip],
              maxdepth |-> maxdepth, skip |-> skip,
              frames |-> <<>>, capacity |-> maxdepth, reallocated |-> FALSE]
    /\ UNCHANGED exceptUw

\* A bug the claims should notice: the vector may grow one past maxdepth.
UnwindCbOneMore ==
    /\ uw.pc = "walk"
    /\ uw.next <= Len(uw.stack)
    /\ uw' = IF Len(uw.frames) > uw.maxdepth
               THEN [uw EXCEPT !.pc = "done"]
             ELSE IF uw.skip > 0
               THEN [uw EXCEPT !.skip = @ - 1, !.next = @ + 1]
             ELSE [uw EXCEPT
                     !.frames = Append(@, uw.stack[uw.next]),
                     !.reallocated = @ \/ Len(uw.frames) = uw.capacity,
                     !.capacity = IF Len(uw.frames) = @ THEN @ + 1 ELSE @,
                     !.next = @ + 1]
    /\ UNCHANGED exceptUw

\* _unwindcb, called by _Unwind_Backtrace for the next frame:
\* _URC_END_OF_STACK ends the walk, _URC_NO_REASON goes on.  A push_back
\* into a full vector reallocates.
UnwindCb ==
    /\ uw.pc = "walk"
    /\ uw.next <= Len(uw.stack)
    /\ uw' = IF Len(uw.frames) >= uw.maxdepth
               THEN [uw EXCEPT !.pc = "done"]
             ELSE IF uw.skip > 0
               THEN [uw EXCEPT !.skip = @ - 1, !.next = @ + 1]
             ELSE [uw EXCEPT
                     !.frames = Append(@, uw.stack[uw.next]),
                     !.reallocated = @ \/ Len(uw.frames) = uw.capacity,
                     !.capacity = IF Len(uw.frames) = @ THEN @ + 1 ELSE @,
                     !.next = @ + 1]
    /\ UNCHANGED exceptUw

\* _Unwind_Backtrace returns when the stack has no more frames.
UnwindEnds ==
    /\ uw.pc = "walk"
    /\ uw.next > Len(uw.stack)
    /\ uw' = [uw EXCEPT !.pc = "done"]
    /\ UNCHANGED exceptUw

FramesNext ==
    \/ \E maxdepth \in 0..(MaxStack + 1), skip \in 0..(MaxStack + 1),
          d \in 0..MaxStack : GetStackFrames(maxdepth, skip, d)
    \/ UnwindCb
    \/ UnwindEnds

LiIdle == li = [pc |-> "idle"]

MeIdle == me = [pc |-> "idle"]

FcIdle == fc = [pc |-> "idle"]

LaterIdle == UwIdle /\ LiIdle /\ MeIdle /\ FcIdle

-----------------------------------------------------------------------------
(* _LogInfo: the extra log info and how it is emitted.                     *)

\* What is left unchanged by a call of a function that keeps no state.
exceptFc == <<firstVars, uw, li, me>>

\* The longest vector of lines registered under a key.
MaxLines == 2

LogKeys == {<<97>>, <<98>>}

\* A vector of n lines; a line tells its key and its place.
LinesOf(key, n) == [j \in 1..n |-> <<"line", key, j>>]

\* The maps that _logInfoForErrors may be, as entries <<key, *lines>> in key
\* order: each key is absent or points to a vector of 0..MaxLines lines (a
\* registered vector may have been emptied by its owner since).
LogInfoMaps ==
    LET a == <<97>>
        b == <<98>>
        One(key) == {<<>>} \cup {<< <<key, LinesOf(key, n)>> >> : n \in 0..MaxLines}
    IN  {x \o y : x \in One(a), y \in One(b)}

\* A bug the claims should notice: the lines are counted per key.
RECURSIVE EmitFromPerKey(_, _, _, _, _, _)
EmitFromPerKey(map, max, i, j, n, out) ==
    IF i > Len(map) THEN out
    ELSE IF j = 0
      THEN EmitFromPerKey(map, max, i, 1, 0,
                          Append(out, <<"header", map[i][1]>>))
    ELSE IF j > Len(map[i][2])
      THEN EmitFromPerKey(map, max, i + 1, 0, n, out)
    ELSE IF max # 0 /\ n >= max
      THEN Append(out, <<"notice">>)
    ELSE EmitFromPerKey(map, max, i, j + 1, IF max # 0 THEN n + 1 ELSE n,
                        Append(out, map[i][2][j]))

\* The two loops of EmitAnyExtraLogInfo from line j of entry i on (j = 0:
\* the header of the entry comes next), n lines having been counted; out
\* is what was written so far.  n++ is evaluated only if max is not 0.
RECURSIVE EmitFrom(_, _, _, _, _, _)
EmitFrom(map, max, i, j, n, out) ==
    IF i > Len(map) THEN out
    ELSE IF j = 0
      THEN EmitFrom(map, max, i, 1, n, Append(out, <<"header", map[i][1]>>))
    ELSE IF j > Len(map[i][2])
      THEN EmitFrom(map, max, i + 1, 0, n, out)
    ELSE IF max # 0 /\ n >= max
      THEN Append(out, <<"notice">>)
    ELSE EmitFrom(map, max, i, j + 1, IF max # 0 THEN n + 1 ELSE n,
                  Append(out, map[i][2][j]))

\* EmitAnyExtraLogInfo(outFile, max): what it writes.
EmitAnyExtraLogInfo(map, max) == EmitFrom(map, max, 1, 0, 0, <<>>)

EmitInit ==
    \E map \in LogInfoMaps, max \in 0..((2 * MaxLines) + 1) :
        fc = [pc |-> "ready", fn |-> "EmitAnyExtraLogInfo", map |-> map,
              max |-> max, out |-> <<>>]

EmitAnyExtraLogInfoCall ==
    /\ fc.pc = "ready" /\ fc.fn = "EmitAnyExtraLogInfo"
    /\ fc' = [fc EXCEPT !.pc = "done",
                        !.out = EmitAnyExtraLogInfo(fc.map, fc.max)]
    /\ UNCHANGED exceptFc

EmitNext == EmitAnyExtraLogInfoCall

\* What is left unchanged by a step of the registry of extra log info.
exceptLi == <<firstVars, uw, me, fc>>

\* How many registrations a behaviour makes.
MaxRegs == 3

\* The null pointer, and the vectors a caller may pass a pointer to: the
\* vector at 1 is empty, the others hold lines.
NullLines == 0

Vectors == 1..3

VectorAt(p) == IF p = 1 THEN <<>> ELSE LinesOf(<<p>>, p - 1)

LiInit == li = [pc |-> "run", map |-> <<>>, regs |-> <<>>]

\* A bug the claims should notice: a pointer to an empty vector is stored.
SetExtraLogInfoForErrorsNullOnly(key, lines) ==
    /\ li.pc = "run"
    /\ Len(li.regs) < MaxRegs
    /\ li' = [li EXCEPT
                 !.map = IF lines = NullLines
                           THEN MapErase(li.map, key)
                           ELSE MapAssign(li.map, key, lines),
                 !.regs = Append(li.regs, <<key, lines>>)]
    /\ UNCHANGED exceptLi

\* _LogInfo::SetExtraLogInfoForErrors(key, lines), under the mutex; regs
\* records the calls made, for the claims.
SetExtraLogInfoForErrors(key, lines) ==
    /\ li.pc = "run"
    /\ Len(li.regs) < MaxRegs
    /\ li' = [li EXCEPT
                 !.map = IF lines = NullLines \/ VectorAt(lines) = <<>>
                           THEN MapErase(li.map, key)
                           ELSE MapAssign(li.map, key, lines),
                 !.regs = Append(li.regs, <<key, lines>>)]
    /\ UNCHANGED exceptLi

RegistryNext ==
    \E key \in LogKeys, lines \in {NullLines} \cup Vectors :
        SetExtraLogInfoForErrors(key, lines)

-----------------------------------------------------------------------------
(* timing.cpp: _MeasureExecutionTime, from the filling of the sample       *)
(* buffer on.                                                              *)

\* What is left unchanged by a step of _MeasureExecutionTime.
exceptMe == <<firstVars, uw, li, fc>>

NumSamples == 64

\* uint64_t bestMedian = ~0: all bits set, larger than any measured time.
\* It stands here as the largest integer at hand.
AllOnes == 2147483647

\* The times, in ticks, that one sample may measure.
SampleTimes == {5, 6, 7}

\* The time budgets passed, in microseconds: none, a short one, and one
\* above the five seconds the code allows.
Budgets == {0, 1000, 6000000}

\* n samples in the order they were taken: a of the first time, b of the
\* second, the rest of the third.
Samples(n, a, b) ==
    [i \in 1..n |-> IF i <= a THEN 5 ELSE IF i <= a + b THEN 6 ELSE 7]

\* std::sort(std::begin(sampleTimes), std::end(sampleTimes)).
Sort(times) == SortSeq(times, <)

\* SecondsToTicks(double(maxMicroseconds) / 1.e6), after the cap at five
\* seconds, with 500 nanoseconds per tick: two ticks per microsecond.
MaxTicks(maxMicroseconds) ==
    LET capped == IF maxMicroseconds > 5000000 THEN 5000000
                  ELSE maxMicroseconds
    IN  capped * (1000 \div 500)

\* sampleTimes[i], with the index of the code (from 0).
At0(times, i) == times[i + 1]

\* A bug the claims should notice: the slower half is replaced.
ResampleHalf(times, new) ==
    LET slow == NumSamples \div 2
        fast == NumSamples \div 10
    IN  [k \in 1..NumSamples |->
            IF k - 1 >= slow THEN new[((k - slow - 1) % Len(new)) + 1]
            ELSE IF k - 1 < fast THEN new[k]
            ELSE times[k]]

\* The two loops that replace the slowest third and the fastest tenth by
\* the new samples, taken in this order.
Resample(times, new) ==
    LET slow == NumSamples - (NumSamples \div 3)
        fast == NumSamples \div 10
    IN  [k \in 1..NumSamples |->
            IF k - 1 >= slow THEN new[k - slow]
            ELSE IF k - 1 < fast THEN new[(NumSamples - slow) + k]
            ELSE times[k]]

\* How many samples one round replaces.
NumResampled == (NumSamples \div 3) + (NumSamples \div 10)

\* How many of the new samples of a round may measure the same time: the
\* first buffer is filled in every way, the later rounds in these.
NewCounts == {k \in 0..NumResampled : k % 3 = 0}

MeInit ==
    \E maxMicroseconds \in Budgets :
        me = [pc |-> "fill", maxTicks |-> MaxTicks(maxMicroseconds),
              sampleTimes |-> <<>>, bestMedian |-> AllOnes,
              reachedConsensus |-> FALSE, result |-> 0,
              rounds |-> 0, minMedian |-> AllOnes, consensusSeen |-> FALSE]

\* The buffer is filled with NumSamples samples, and the first round sorts
\* it.
MeFill ==
    /\ me.pc = "fill"
    /\ \E a \in 0..NumSamples :
         \E b \in 0..(NumSamples - a) :
           me' = [me EXCEPT !.pc = "sorted",
                            !.sampleTimes = Sort(Samples(NumSamples, a, b))]
    /\ UNCHANGED exceptMe

\* What the claims are told of a round: rounds counts the sorted buffers
\* examined, minMedian is the least of their medians, consensusSeen says
\* that one of them had its minimum equal to its median.
Examined(m) ==
    LET median == At0(m.sampleTimes, NumSamples \div 2)
    IN  [m EXCEPT !.rounds = IF @ < 2 THEN @ + 1 ELSE @,
                  !.minMedian = IF median < @ THEN median ELSE @,
                  !.consensusSeen = @ \/ At0(m.sampleTimes, 0) = median]

\* A bug the claims should notice: the time budget is tested before the
\* consensus.
MeRoundBudgetFirst ==
    /\ me.pc = "sorted"
    /\ LET m == Examined(me)
           median == At0(me.sampleTimes, NumSamples \div 2)
       IN  \E elapsed \in {0, me.maxTicks} :
             IF elapsed >= me.maxTicks
               THEN me' = [m EXCEPT !.pc = "done",
                                    !.reachedConsensus = FALSE,
                                    !.result = me.bestMedian]
             ELSE IF At0(me.sampleTimes, 0) = median
               THEN me' = [m EXCEPT !.pc = "done",
                                    !.reachedConsensus = TRUE,
                                    !.result = At0(me.sampleTimes, 0)]
             ELSE \E a \in NewCounts :
                    \E b \in {k \in NewCounts : k <= NumResampled - a} :
                      me' = [m EXCEPT
                               !.bestMedian = IF median < @ THEN median ELSE @,
                               !.sampleTimes =
                                   Sort(Resample(me.sampleTimes,
                                                 Samples(NumResampled, a, b)))]
    /\ UNCHANGED exceptMe

\* One round of the loop on a sorted buffer: the consensus test, the test
\* of the time budget (limitTimer has counted elapsed ticks), the update of
\* bestMedian and the new samples; the sort of the next round ends it.
\* After "break" the second loop finds the budget used up, and the result
\* is bestMedian.
MeRound ==
    /\ me.pc = "sorted"
    /\ LET m == Examined(me)
           median == At0(me.sampleTimes, NumSamples \div 2)
       IN  IF At0(me.sampleTimes, 0) = median
             THEN me' = [m EXCEPT !.pc = "done",
                                  !.reachedConsensus = TRUE,
                                  !.result = At0(me.sampleTimes, 0)]
           ELSE \E elapsed \in {0, me.maxTicks} :
                  IF elapsed >= me.maxTicks
                    THEN me' = [m EXCEPT !.pc = "done",
                                         !.reachedConsensus = FALSE,
                                         !.result = me.bestMedian]
                  ELSE \E a \in NewCounts :
                         \E b \in {k \in NewCounts : k <= NumResampled - a} :
                           me' = [m EXCEPT
                                    !.bestMedian =
                                        IF median < @ THEN median ELSE @,
                                    !.sampleTimes =
                                        Sort(Resample(me.sampleTimes,
                                             Samples(NumResampled, a, b)))]
    /\ UNCHANGED exceptMe

MeasureNext == MeFill \/ MeRound

\* The round of MeRound that finds the buffer in consensus.
MeConsensus ==
    /\ me.pc = "sorted"
    /\ At0(me.sampleTimes, 0) = At0(me.sampleTimes, NumSamples \div 2)
    /\ me' = [Examined(me) EXCEPT !.pc = "done", !.reachedConsensus = TRUE,
                                  !.result = At0(me.sampleTimes, 0)]
    /\ UNCHANGED exceptMe

\* The round of MeRound in which limitTimer is found to have counted
\* maxTicks.
MeTimeUp ==
    /\ me.pc = "sorted"
    /\ At0(me.sampleTimes, 0) # At0(me.sampleTimes, NumSamples \div 2)
    /\ me' = [Examined(me) EXCEPT !.pc = "done", !.reachedConsensus = FALSE,
                                  !.result = me.bestMedian]
    /\ UNCHANGED exceptMe

(* _ComputeNanosecondsPerTick on Linux, not ARM.                           *)

\* A line of /proc/cpuinfo: how it starts, whether it holds a ':', and the
\* number atof reads after the ':'.
CpuinfoLines ==
    [key : {"bogomips", "cpu MHz"}, colon : {TRUE}, value : {0, 4}]
    \cup [key : {"bogomips", "cpu MHz"}, colon : {FALSE}, value : {4}]
    \cup [key : {"model name"}, colon : {TRUE}, value : {7}]

\* The files: whether each fopen succeeds, the lines of /proc/cpuinfo, and
\* the lines of cpuinfo_max_freq as the numbers atof reads from them.
CpuFiles ==
    [cpuinfoOpens : BOOLEAN, cpuinfoOpensAgain : BOOLEAN,
     cpuinfo : {<<>>} \cup {<<l>> : l \in CpuinfoLines}
               \cup {<<l, m>> : l \in CpuinfoLines, m \in CpuinfoLines},
     maxFreqOpens : BOOLEAN,
     maxFreq : {<<>>, <<0>>, <<3000>>}]

\* A while (fgets ...) loop over the lines from line i on: the number after
\* the ':' of the first line that starts with the key and holds a ':', or
\* -1 if the file ends first.
RECURSIVE ScanFor(_, _, _)
ScanFor(lines, key, i) ==
    IF i > Len(lines) THEN -1
    ELSE IF lines[i].key = key /\ lines[i].colon THEN lines[i].value
    ELSE ScanFor(lines, key, i + 1)

\* cpuHz after the bogomips lines were looked for.
FromBogomips(files) ==
    LET found == IF files.cpuinfoOpens
                   THEN ScanFor(files.cpuinfo, "bogomips", 1) ELSE -1
    IN  IF found = -1 THEN 0 ELSE (1000000 * found) \div 2

\* cpuHz after cpuinfo_max_freq was looked at, if cpuHz was 0.
FromMaxFreq(files, cpuHz) ==
    IF cpuHz = 0 /\ files.maxFreqOpens /\ files.maxFreq # <<>>
      THEN 1000 * files.maxFreq[1]
      ELSE cpuHz

\* The result: ARCH_ERROR aborts the program, or _NanosecondsPerTick is set
\* to 1e9 / cpuHz, kept here as numerator and denominator.
Aborted(message) ==
    [outcome |-> "abort", message |-> message, cpuHz |-> 0,
     nsPerTick |-> [num |-> 1, den |-> 1]]

Calibrated(cpuHz) ==
    [outcome |-> "return", message |-> "", cpuHz |-> cpuHz,
     nsPerTick |-> [num |-> 1000000000, den |-> cpuHz]]

\* A bug the claims should notice: a missing 'cpu MHz' line is let through.
ComputeNanosecondsPerTickUnchecked(files) ==
    LET first == FromMaxFreq(files, FromBogomips(files))
    IN  IF first # 0 THEN Calibrated(first)
        ELSE IF ~files.cpuinfoOpensAgain
          THEN Aborted("Cannot open /proc/cpuinfo")
        ELSE LET found == ScanFor(files.cpuinfo, "cpu MHz", 1)
             IN  Calibrated(IF found = -1 THEN 0 ELSE 1000000 * found)

\* _ComputeNanosecondsPerTick().
ComputeNanosecondsPerTick(files) ==
    LET first == FromMaxFreq(files, FromBogomips(files))
    IN  IF first # 0 THEN Calibrated(first)
        ELSE IF ~files.cpuinfoOpensAgain
          THEN Aborted("Cannot open /proc/cpuinfo")
        ELSE LET found == ScanFor(files.cpuinfo, "cpu MHz", 1)
                 cpuHz == IF found = -1 THEN 0 ELSE 1000000 * found
             IN  IF cpuHz = 0
                   THEN Aborted("Could not find 'cpu MHz' in /proc/cpuinfo")
                   ELSE Calibrated(cpuHz)

CalibInit ==
    \E files \in CpuFiles :
        fc = [pc |-> "ready", fn |-> "_ComputeNanosecondsPerTick",
              files |-> files, out |-> Aborted("")]

ComputeNanosecondsPerTickCall ==
    /\ fc.pc = "ready" /\ fc.fn = "_ComputeNanosecondsPerTick"
    /\ fc' = [fc EXCEPT !.pc = "done",
                        !.out = ComputeNanosecondsPerTick(fc.files)]
    /\ UNCHANGED exceptFc

CalibNext == ComputeNanosecondsPerTickCall

(* The conversions of ticks.  A double is modelled as a binary floating    *)
(* point number with a significand of Precision bits instead of 53, and    *)
(* every number of the conversion is written as a multiple of 1 / Grid:    *)
(* n stands for n / Grid.  Every operation rounds to the nearest number    *)
(* with such a significand, ties to even, as the hardware does.            *)

Precision == 5

Grid == 2 ^ (Precision - 1)

\* The weight of the last bit of the significand of n.
RECURSIVE Ulp(_)
Ulp(n) == IF n < 2 ^ Precision THEN 1 ELSE 2 * Ulp(n \div 2)

\* The double nearest to n.
Fl(n) ==
    LET q == Ulp(n)
        down == (n \div q) * q
        rest == n - down
    IN  IF 2 * rest < q THEN down
        ELSE IF 2 * rest > q THEN down + q
        ELSE IF (n \div q) % 2 = 0 THEN down ELSE down + q

\* The values of _NanosecondsPerTick tried: the doubles from 1 / Grid to 4.
NsPerTicks == {a \in 1..(4 * Grid) : Fl(a) = a}

\* The tick counts tried: static_cast<double>(nTicks) is exact for them, as
\* it is for the tick counts below 2^24 with a significand of 53 bits.
TickCounts == 0..(Grid - 1)

\* A bug the claims should notice: the half is not added.
TicksToNanosecondsTruncated(nTicks, nsPerTick) ==
    Fl(nTicks * nsPerTick) \div Grid

\* int64_t(static_cast<double>(nTicks) * _NanosecondsPerTick + .5): the
\* product is rounded, the sum is rounded, the conversion to int64_t drops
\* the fraction.
TicksToNanoseconds(nTicks, nsPerTick) ==
    LET product == Fl(nTicks * nsPerTick)
        sum == Fl(product + (Grid \div 2))
    IN  sum \div Grid

\* double(TicksToNanoseconds(nTicks)) / 1e9, as numerator and denominator;
\* the rounding of this quotient is left out.
TicksToSeconds(nTicks, nsPerTick) ==
    [num |-> TicksToNanoseconds(nTicks, nsPerTick), den |-> 1000000000]

TicksInit ==
    \E nTicks \in TickCounts, nsPerTick \in NsPerTicks :
        fc = [pc |-> "ready", fn |-> "TicksTo", nTicks |-> nTicks,
              nsPerTick |-> nsPerTick, nanoseconds |-> 0,
              seconds |-> [num |-> 0, den |-> 1]]

TicksToCall ==
    /\ fc.pc = "ready" /\ fc.fn = "TicksTo"
    /\ fc' = [fc EXCEPT
                 !.pc = "done",
                 !.nanoseconds = TicksToNanoseconds(fc.nTicks, fc.nsPerTick),
                 !.seconds = TicksToSeconds(fc.nTicks, fc.nsPerTick)]
    /\ UNCHANGED exceptFc

TicksNext == TicksToCall

\* The largest tick quantum tried.
MaxQuantum == 2

\* A bug the claims should notice: the quotient is not rounded.
SampleItersTruncated(estTicksPer, tickQuantum) ==
    LET minTicksPerSample == 2000 * tickQuantum
    IN  IF estTicksPer < minTicksPerSample
          THEN minTicksPerSample \div estTicksPer
          ELSE 1

\* const int sampleIters, from the estimate of the ticks of one call and
\* GetTickQuantum(); the values tried are far from the ends of uint64_t
\* and int.
SampleIters(estTicksPer, tickQuantum) ==
    LET minTicksPerSample == 2000 * tickQuantum
    IN  IF estTicksPer < minTicksPerSample
          THEN (minTicksPerSample + (estTicksPer \div 2)) \div estTicksPer
          ELSE 1

ItersInit ==
    \E q \in 0..MaxQuantum, e \in 1..((2000 * MaxQuantum) + 2) :
        fc = [pc |-> "ready", fn |-> "sampleIters", estTicksPer |-> e,
              tickQuantum |-> q, sampleIters |-> 0]

SampleItersCall ==
    /\ fc.pc = "ready" /\ fc.fn = "sampleIters"
    /\ fc' = [fc EXCEPT !.pc = "done",
                        !.sampleIters =
                            SampleIters(fc.estTicksPer, fc.tickQuantum)]
    /\ UNCHANGED exceptFc

ItersNext == SampleItersCall

\* The same computation for every estimate, that of a call measured as 0
\* ticks among them.
BatchInit ==
    \E q \in 0..MaxQuantum, e \in 0..((2000 * MaxQuantum) + 2) :
        fc = [pc |-> "ready", fn |-> "batch", estTicksPer |-> e,
              tickQuantum |-> q, sampleIters |-> 0]

\* Whether the computation divides by estTicksPer, and by zero.
DividesByZero(estTicksPer, tickQuantum) ==
    estTicksPer < 2000 * tickQuantum /\ estTicksPer = 0

\* An integer division by zero is undefined: the process may be stopped by
\* the trap of the processor, or go on with any value.
BatchSizeCall ==
    /\ fc.pc = "ready" /\ fc.fn = "batch"
    /\ IF DividesByZero(fc.estTicksPer, fc.tickQuantum)
         THEN \/ fc' = [fc EXCEPT !.pc = "trapped"]
              \/ \E any \in {-1, 0, 1, AllOnes} :
                    fc' = [fc EXCEPT !.pc = "done", !.sampleIters = any]
         ELSE fc' = [fc EXCEPT !.pc = "done",
                               !.sampleIters =
                                   SampleIters(fc.estTicksPer, fc.tickQuantum)]
    /\ UNCHANGED exceptFc

BatchNext == BatchSizeCall

-----------------------------------------------------------------------------
(* GetStackFrames on Windows and on Darwin, each called on its own.        *)

\* MAX_STACK_DEPTH, the length of the local array stack: 4096 in the source,
\* scaled down.
MAX_STACK_DEPTH == 2

StdMin(a, b) == IF b < a THEN b ELSE a

StdMax(a, b) == IF a < b THEN b ELSE a

\* The addresses of the frames first..last of the call stack, the innermost
\* frame being 1.
Addrs(first, last) == [i \in 1..StdMax(last - first + 1, 0) |-> first + i - 1]

\* The Windows variant on a call stack of depth frames.  asked is the number
\* of entries the platform is allowed to write to stack, written the number
\* it writes.
GetStackFramesWindows(maxdepth, skip, depth) ==
    LET captured == StdMin(StdMax(depth - skip, 0), MAX_STACK_DEPTH)
        frameCount == StdMin(captured, maxdepth)
    IN  [asked |-> MAX_STACK_DEPTH, written |-> captured,
         frames |-> Addrs(skip + 1, skip + frameCount)]

\* The Darwin variant: backtrace is given the larger of MAX_STACK_DEPTH and
\* maxdepth as the size of stack.
GetStackFramesDarwin(maxdepth, skip, depth) ==
    LET size == StdMax(MAX_STACK_DEPTH, maxdepth)
        frameCount == StdMin(depth, size)
    IN  [asked |-> size, written |-> frameCount,
         frames |-> Addrs(skip + 1, frameCount)]

\* The calls tried: maxdepth and skip below, at and above MAX_STACK_DEPTH, on
\* call stacks shallower and deeper than it.
VariantsInit ==
    \E fn \in {"windows", "darwin"},
       maxdepth \in 0..(MAX_STACK_DEPTH + 2),
       skip \in 0..(MAX_STACK_DEPTH + 1),
       depth \in 0..(MAX_STACK_DEPTH + 2) :
        fc = [pc |-> "ready", fn |-> fn, maxdepth |-> maxdepth,
              skip |-> skip, depth |-> depth, asked |-> 0, written |-> 0,
              frames |-> <<>>]

GetStackFramesWindowsCall ==
    /\ fc.pc = "ready" /\ fc.fn = "windows"
    /\ LET r == GetStackFramesWindows(fc.maxdepth, fc.skip, fc.depth)
       IN  fc' = [fc EXCEPT !.pc = "done", !.asked = r.asked,
                            !.written = r.written, !.frames = r.frames]
    /\ UNCHANGED exceptFc

\* Entries written past the end of stack are undefined behaviour: the call
\* may go on with what backtrace returned, or the process may die in it.
GetStackFramesDarwinCall ==
    /\ fc.pc = "ready" /\ fc.fn = "darwin"
    /\ LET r == GetStackFramesDarwin(fc.maxdepth, fc.skip, fc.depth)
       IN  \E pc \in IF r.written > MAX_STACK_DEPTH THEN {"done", "died"}
                      ELSE {"done"} :
               fc' = [fc EXCEPT !.pc = pc, !.asked = r.asked,
                                !.written = r.written,
                                !.frames = IF pc = "done" THEN r.frames
                                           ELSE <<>>]
    /\ UNCHANGED exceptFc

VariantsNext ==
    \/ GetStackFramesWindowsCall
    \/ GetStackFramesDarwinCall

-----------------------------------------------------------------------------
(* The async-safe helpers, each called on its own.                         *)

\* The numbers converted are -MaxLong .. MaxLong.
MaxLong == 120

ItoaInit ==
    \E x \in (-MaxLong)..MaxLong :
        fc = [pc |-> "ready", fn |-> "asitoa", x |-> x, out |-> <<>>]

AsitoaCall ==
    /\ fc.pc = "ready" /\ fc.fn = "asitoa"
    /\ fc' = [fc EXCEPT !.pc = "done", !.out = asitoa(fc.x)]
    /\ UNCHANGED exceptFc

ItoaNext == AsitoaCall

\* The longest entry of the environment tried; a name is shorter.
MaxEntry == 3

\* The environment block: no entry, one or two, over 'A', 'B' and '='.
Environs ==
    LET entries == SeqsUpTo({65, 66, 61}, MaxEntry)
    IN  {<<>>} \cup {<<e>> : e \in entries}
        \cup {<<e, f>> : e \in entries, f \in entries}

EnvNames == SeqsUpTo({65, 66}, MaxEntry - 1) \cup {NullStr}

\* s[i] of a C string: the NUL follows the last character.
CharAt(str, i) == IF i < Len(str) THEN str[i + 1] ELSE 0

\* asstrlen(str): the characters before the NUL.
asstrlen(str) == Len(str)

\* The loop of asstrneq from index i on, with n characters left to compare.
RECURSIVE StrneqFrom(_, _, _, _)
StrneqFrom(dst, src, i, n) ==
    IF (CharAt(dst, i) # 0 \/ CharAt(src, i) # 0) /\ n # 0
      THEN IF CharAt(dst, i) # CharAt(src, i) THEN FALSE
           ELSE StrneqFrom(dst, src, i + 1, n - 1)
      ELSE TRUE

\* asstrneq(dst, src, n): equality up to n characters.
asstrneq(dst, src, n) ==
    IF dst = NullStr \/ src = NullStr THEN dst = src
    ELSE StrneqFrom(dst, src, 0, n)

\* What asgetenv returns: no pointer, or the pointer var + at into entry
\* number entry, and the text found there.
NoValue == [entry |-> 0, at |-> 0, text |-> NullStr]

\* A bug the claims should notice: the '=' after the name is not looked at.
RECURSIVE GetenvFromAnyPrefix(_, _, _)
GetenvFromAnyPrefix(environ, name, i) ==
    IF i > Len(environ) THEN NoValue
    ELSE LET var == environ[i]
             len == asstrlen(name)
         IN  IF asstrneq(var, name, len)
               THEN [entry |-> i, at |-> len + 1,
                     text |-> SubSeq(var, len + 2, Len(var))]
               ELSE GetenvFromAnyPrefix(environ, name, i + 1)

\* The loop of asgetenv over the entries of the block from entry i on.
RECURSIVE GetenvFrom(_, _, _)
GetenvFrom(environ, name, i) ==
    IF i > Len(environ) THEN NoValue
    ELSE LET var == environ[i]
             len == asstrlen(name)
         IN  IF asstrneq(var, name, len) /\ CharAt(var, len) = 61
               THEN [entry |-> i, at |-> len + 1,
                     text |-> SubSeq(var, len + 2, Len(var))]
               ELSE GetenvFrom(environ, name, i + 1)

\* asgetenv(name) on the block that Environ() returns.
asgetenv(environ, name) ==
    IF name # NullStr THEN GetenvFrom(environ, name, 1) ELSE NoValue

GetenvInit ==
    \E environ \in Environs, name \in EnvNames :
        fc = [pc |-> "ready", fn |-> "asgetenv", environ |-> environ,
              name |-> name, out |-> NoValue]

AsgetenvCall ==
    /\ fc.pc = "ready" /\ fc.fn = "asgetenv"
    /\ fc' = [fc EXCEPT !.pc = "done",
                        !.out = asgetenv(fc.environ, fc.name)]
    /\ UNCHANGED exceptFc

GetenvNext == AsgetenvCall

-----------------------------------------------------------------------------
\* _LogStackTraceForPid called on its own: what may be registered, and the
\* ARCH_POSTMORTEM variable set or not.
PostConfigs ==
    {[NothingRegistered EXCEPT !.envPostmortem = e, !.processStateCmd = c,
                               !.nonFatalArgv = n, !.fatalArgv = f] :
        e \in {Null, "/env/tool"}, c \in {Null, "/bin/tool"},
        n \in {NullArgv, NonFatalTemplate, LongTemplate},
        f \in {NullArgv, FatalTemplate, LongTemplate}}

NoPost == [ret |-> 0, warn |-> FALSE, run |-> FALSE, argv |-> ArgvBuffer]

\* No call is under way: nothing was handed to CrashHandlerSystemv.
PostIdle ==
    pm = [pc |-> "idle", isFatal |-> FALSE,
          result |-> [NoPost EXCEPT !.argv = <<>>]]

PostInit ==
    /\ ReportStart
    /\ config \in PostConfigs
    /\ quota = [reports |-> 0, sets |-> 0]
    /\ \E isFatal \in BOOLEAN :
          pm = [pc |-> "ready", isFatal |-> isFatal, result |-> NoPost]

\* One call of _LogStackTraceForPid; CrashHandlerSystemv is given argv[0]
\* and argv.
LogStackTraceForPidCall ==
    /\ pm.pc = "ready"
    /\ pm' = [pm EXCEPT !.pc = "done",
                        !.result = LogStackTraceForPid(pm.isFatal, "reason")]
    /\ UNCHANGED <<argvVars, infoVars, nameVars, sysVars, reportVars,
                   traceVars, laterVars>>

PostNext == LogStackTraceForPidCall

\* The call of _LogStackTraceForPid by _LogProcessStateHelper, for every
\* reason and message the entry points may be given.
HelperPostInit ==
    /\ ReportStart
    /\ config \in PostConfigs
    /\ quota = [reports |-> 0, sets |-> 0]
    /\ \E isFatal \in BOOLEAN, reason \in {Null, "oom"},
          message \in {Null, "out of memory"} :
          fc = [pc |-> "ready", fn |-> "loggedStack", isFatal |-> isFatal,
                reason |-> reason, message |-> message, result |-> NoPost]

\* loggedStack: the reason is handed on when there is one, else the message.
HelperPostCall ==
    /\ fc.pc = "ready" /\ fc.fn = "loggedStack"
    /\ fc' = [fc EXCEPT
                 !.pc = "done",
                 !.result = IF fc.reason # Null
                              THEN LogStackTraceForPid(fc.isFatal, fc.reason)
                              ELSE LogStackTraceForPid(fc.isFatal,
                                                       fc.message)]
    /\ UNCHANGED exceptFc

HelperPostNext == HelperPostCall

\* None of the parts above is in use.
FirstIdle ==
    ArgvIdle /\ InfoInit /\ NameIdle /\ SysIdle /\ ReportIdle /\ PostIdle
    /\ TraceIdle

InitArgv ==
    ArgvInit /\ InfoInit /\ NameIdle /\ SysIdle /\ ReportIdle /\ PostIdle
    /\ TraceIdle /\ LaterIdle

SpecArgv == InitArgv /\ [][ArgvNext]_vars

InitInfo ==
    ArgvIdle /\ InfoInit /\ NameIdle /\ SysIdle /\ ReportIdle /\ PostIdle
    /\ TraceIdle /\ LaterIdle

SpecInfo == InitInfo /\ [][InfoNext]_vars

InitName ==
    ArgvIdle /\ InfoInit /\ NameInit /\ SysIdle /\ ReportIdle /\ PostIdle
    /\ TraceIdle /\ LaterIdle

SpecName == InitName /\ [][NameNext]_vars

InitSys ==
    ArgvIdle /\ InfoInit /\ NameIdle /\ SysInit /\ ReportIdle /\ PostIdle
    /\ TraceIdle /\ LaterIdle

SpecSys == InitSys /\ [][SysNext]_vars

\* The temp directory and the buffer size of the reports.
ReportFiles ==
    /\ fsFiles = {}
    /\ gsLen = LogfileSize
    /\ gs = [t \in Callers |->
               [pc |-> "idle", suffix |-> 0, buf |-> <<>>, fd |-> -1,
                errno |-> "0"]]

\* Threads that report, with nothing changing what they print.
Init ==
    /\ ArgvIdle /\ InfoInit /\ ReportFiles /\ SysIdle /\ ReportInit
    /\ PostIdle /\ TraceIdle /\ LaterIdle
    /\ quota = [reports |-> MaxReports, sets |-> 0]

Spec == Init /\ [][ReportNext]_vars

\* One report, beside calls that change what it prints.
InitRace ==
    /\ ArgvIdle /\ InfoInit /\ ReportFiles /\ SysIdle /\ ReportInit
    /\ PostIdle /\ TraceIdle /\ LaterIdle
    /\ quota = [reports |-> 1, sets |-> MaxSets]

SpecRace == InitRace /\ [][RaceNext]_vars

SpecSession == Init /\ [][SessionNext]_vars

\* Two reports, which may be made by one thread or by two.
InitOrder ==
    /\ ArgvIdle /\ InfoInit /\ ReportFiles /\ SysIdle /\ ReportInit
    /\ PostIdle /\ TraceIdle /\ LaterIdle
    /\ quota = [reports |-> 2, sets |-> 0]

SpecOrder == InitOrder /\ [][OrderNext]_vars

\* Three reports, of which signal handlers may make two, with every command
\* registered.
InitNested ==
    /\ ArgvIdle /\ InfoInit /\ ReportFiles /\ SysIdle
    /\ ReportStart /\ config = AllRegistered
    /\ PostIdle /\ TraceIdle /\ LaterIdle
    /\ quota = [reports |-> 3, sets |-> 0]

SpecNested == InitNested /\ [][NestedNext]_vars

\* The reports under a fair scheduler: a thread inside a call goes on
\* running, the commands it runs end (CrashHandlerSystemv times them out),
\* and a thread that spins on the busy flag while the flag is free again
\* and again wins test_and_set at some time.
SpecFair ==
    /\ Init
    /\ [][ReportNext]_vars
    /\ \A t \in Threads : WF_vars(ReportStep(t)) /\ SF_vars(RpAcquire(t))

InitPost ==
    ArgvIdle /\ InfoInit /\ NameIdle /\ SysIdle /\ PostInit /\ TraceIdle /\ LaterIdle

SpecPost == InitPost /\ [][PostNext]_vars

InitTrace ==
    ArgvIdle /\ InfoInit /\ NameIdle /\ SysIdle /\ ReportIdle /\ PostIdle
    /\ TraceInit /\ LaterIdle

SpecTrace == InitTrace /\ [][TraceNext]_vars

InitFrames == FirstIdle /\ LaterIdle

SpecFrames == InitFrames /\ [][FramesNext]_vars

InitEmit == FirstIdle /\ UwIdle /\ LiIdle /\ MeIdle /\ EmitInit

SpecEmit == InitEmit /\ [][EmitNext]_vars

InitRegistry == FirstIdle /\ UwIdle /\ LiInit /\ MeIdle /\ FcIdle

SpecRegistry == InitRegistry /\ [][RegistryNext]_vars

InitMeasure == FirstIdle /\ UwIdle /\ LiIdle /\ MeInit /\ FcIdle

SpecMeasure == InitMeasure /\ [][MeasureNext]_vars

\* The measurement with a clock that goes on: the thread runs its round,
\* and limitTimer, which counts the ticks since it was made, reaches the
\* finite maxTicks in some round if the rounds go on.
SpecMeasureFair ==
    /\ InitMeasure
    /\ [][MeasureNext]_vars
    /\ WF_vars(MeConsensus) /\ SF_vars(MeTimeUp)

InitHelperPost ==
    /\ ArgvIdle /\ InfoInit /\ NameIdle /\ SysIdle /\ PostIdle /\ TraceIdle
    /\ UwIdle /\ LiIdle /\ MeIdle /\ HelperPostInit

SpecHelperPost == InitHelperPost /\ [][HelperPostNext]_vars

InitVariants == FirstIdle /\ UwIdle /\ LiIdle /\ MeIdle /\ VariantsInit

SpecVariants == InitVariants /\ [][VariantsNext]_vars

InitIters == FirstIdle /\ UwIdle /\ LiIdle /\ MeIdle /\ ItersInit

SpecIters == InitIters /\ [][ItersNext]_vars

InitBatch == FirstIdle /\ UwIdle /\ LiIdle /\ MeIdle /\ BatchInit

SpecBatch == InitBatch /\ [][BatchNext]_vars

InitItoa == FirstIdle /\ UwIdle /\ LiIdle /\ MeIdle /\ ItoaInit

SpecItoa == InitItoa /\ [][ItoaNext]_vars

InitGetenv == FirstIdle /\ UwIdle /\ LiIdle /\ MeIdle /\ GetenvInit

SpecGetenv == InitGetenv /\ [][GetenvNext]_vars

InitTicks == FirstIdle /\ UwIdle /\ LiIdle /\ MeIdle /\ TicksInit

SpecTicks == InitTicks /\ [][TicksNext]_vars

InitCalib == FirstIdle /\ UwIdle /\ LiIdle /\ MeIdle /\ CalibInit

SpecCalib == InitCalib /\ [][CalibNext]_vars

-----------------------------------------------------------------------------
(* The claims about _ProgInfo.                                             *)

\* The keys whose most recent set call passed a non-empty value.
InfoPresent == {k \in InfoKeys : infoLast[k] \notin {NeverSet, <<>>}}

\* "key: value\n" for the keys of K in ascending order, each with the value
\* it was last set to.
RECURSIVE InfoLines(_)
InfoLines(K) ==
    IF K = {} THEN <<>>
    ELSE LET k == CHOOSE x \in K : \A y \in K \ {x} : StrLess(x, y)
         IN  k \o <<58, 32>> \o infoLast[k] \o <<10>> \o InfoLines(K \ {k})

\* C4: after every SetProgramInfoForErrors call the snapshot is the
\* concatenation, in ascending key order, of "key: value\n" for exactly the
\* keys last set to a non-empty value, and GetProgramInfoForErrors returns
\* the latest value of a key, or the empty string for an absent key.
C4_SnapshotIsSortedLines ==
    /\ infoCalls > 0 => progInfoForErrors = InfoLines(InfoPresent)
    /\ infoGot # NoGet =>
          infoGot.result = IF infoGot.key \in InfoPresent
                             THEN infoLast[infoGot.key] ELSE <<>>

\* A key set, then set to the empty string, beside two keys set out of order.
C4_Witness ==
    /\ infoLast[<<97>>] = <<>>
    /\ infoLast[<<98>>] = <<120>>
    /\ infoLast[<<97, 98>>] = <<121, 58>>
    /\ Len(progInfoMap) = 2
    /\ infoGot.key = <<97>>

-----------------------------------------------------------------------------
(* The claims about _GetStackTraceName.                                    *)

GsReturned0(t) == gs[t].pc = "created"

\* C9: concurrent calls that return 0 return distinct names, each of the
\* form base or base.<n>, each naming a file the call itself created; and a
\* file that already existed is never truncated, overwritten or returned.
C9_ExclusiveNames ==
    /\ \A t \in Callers : GsReturned0(t) =>
          /\ gs[t].buf = NameOf(gs[t].suffix)
          /\ \E f \in fsFiles : f.name = gs[t].buf /\ f.by = t
          /\ \A u \in Callers \ {t} : GsReturned0(u) => gs[u].buf # gs[t].buf
    /\ \A f, g \in fsFiles : f.name = g.name => f = g
    /\ \A i \in 0..(MaxExisting - 1) :
          \A f \in fsFiles : f.name = NameOf(i) /\ f.by = 0 => f.data = "old"

\* Two callers have both returned, the second with a numeric suffix, past a
\* file that existed beforehand.
C9_Witness ==
    /\ \A t \in Callers : GsReturned0(t)
    /\ \E f \in fsFiles : f.by = 0
    /\ \E t \in Callers : gs[t].suffix >= 2

-----------------------------------------------------------------------------
(* The claims about CrashHandlerSystemv.                                   *)

\* C10: a failed fork returns -1 without waiting; a child seen to exit
\* returns its exit status, 127 being flagged as an exec failure with errno
\* ENOENT; a child seen killed by a signal returns -1; and 0 is returned
\* only for a child that exited with status 0.
C10_ReturnValues ==
    sys.pc = "returned" =>
        /\ child.state = "none" => sys.retval = -1 /\ sys.waits = 0
        /\ sys.seen = "exited" =>
              /\ sys.retval = child.status
              /\ child.status = 127 =>
                    sys.errno = "ENOENT" /\ sys.msg = "failed to exec"
        /\ sys.seen = "signaled" => sys.retval = -1
        /\ sys.retval = 0 => sys.seen = "exited" /\ child.status = 0

\* The parent returns 127 for a child whose exec failed, after a wait that
\* the alarm interrupted once.
C10_Witness ==
    /\ sys.pc = "returned"
    /\ sys.seen = "exited"
    /\ sys.retval = 127
    /\ sys.waits = 2


\* The call has gone through the code after the loop.
SysHasTimedOut == sys.msg = "timed out"

\* C11, as claimed: for a timeout T > 0 the loop is left for the time-out
\* code after exactly T interrupted waits, never more; a call that has timed
\* out has cancelled the alarm, killed the child and reaped it, and returns
\* -1 with errno EBUSY: it never returns with the child running or unreaped.
C11_TimeoutKillsAndReaps ==
    sys.arg > 0 =>
        /\ sys.wakes <= sys.arg
        /\ sys.pc = "timedout" => sys.wakes = sys.arg
        /\ SysHasTimedOut =>
              /\ ~sys.alarm
              /\ child.state = "reaped"
              /\ sys.retval = -1
              /\ sys.errno = "EBUSY"

-----------------------------------------------------------------------------
(* The claims about _LogProcessStateHelper and the crash flag.             *)

\* The labels between busy.test_and_set returning false and busy.clear.
Holding ==
    {"crashing", "progname", "debugger", "logname", "writefile", "banner",
     "info", "postmortem", "done", "finish", "release"}

\* The labels of a report that is past _SetAppIsCrashing.
PastSetCrashing == Holding \ {"crashing"}

Holders == {t \in Threads : th[t].pc \in Holding}

\* The lines that LogFatalProcessState and LogCurrentProcessState wrote.
HelperLines == SelectSeq(errStream, LAMBDA l : l[2] \in {"fatal", "current"})

\* A report starts with its banner, or is the lone "cannot create" line.
StartsReport(l) == l[3] \in {"banner", "cannot create"}

\* The line at i and the line at j belong to one report: no report starts
\* after i up to j.
SameReport(lines, i, j) ==
    \A k \in (i + 1)..j : ~StartsReport(lines[k])

\* C1: at most one thread at a time is between acquiring and releasing the
\* busy flag of _LogProcessStateHelper, the flag is set while a thread is
\* there, only that thread has written to a log file it has not finished,
\* and on stderr the lines of two reports never interleave: all lines from
\* one report's banner up to the next report's first line are by the thread
\* that wrote the banner, and that thread's " done." is among them.
C1_OneReportAtATime ==
    /\ Cardinality(Holders) <= 1
    /\ Holders # {} => busy
    /\ \A f \in fsFiles : f.data = "empty" => Holders \subseteq {f.by}
    /\ LET lines == HelperLines
       IN  \A i \in 1..Len(lines) :
              lines[i][3] = "banner" =>
                /\ \A j \in i..Len(lines) :
                      SameReport(lines, i, j) => lines[j][1] = lines[i][1]
                /\ \A j \in (i + 1)..Len(lines) :
                      StartsReport(lines[j]) =>
                        \E k \in (i + 1)..(j - 1) :
                           /\ lines[k][3] = "done"
                           /\ SameReport(lines, i, k)

\* Two threads have each written a whole report, one after the other.
C1_Witness ==
    LET lines == HelperLines
    IN  \E i, j \in 1..Len(lines) :
           /\ i < j
           /\ lines[i][3] = "done" /\ lines[j][3] = "done"
           /\ lines[i][1] # lines[j][1]

\* The process has exited in the debugger trap.
Exited == \A t \in Threads : th[t].pc = "exited"

\* C2: IsAppCrashing is false at the start and stays false whatever
\* LogStackTrace calls (fatal ones too) and LogCurrentProcessState calls are
\* made: it reads true only if a LogFatalProcessState call has got past
\* _SetAppIsCrashing.  It is true once LogFatalProcessState has returned,
\* and once true it never reads false again.
C2_CrashFlagOneWay ==
    /\ [](isCrashing = 1 /\ ~Exited =>
            \/ fatalReturned
            \/ \E t \in Threads :
                  th[t].op = "fatal" /\ th[t].pc \in PastSetCrashing)
    /\ [](fatalReturned => isCrashing = 1)
    /\ [][isCrashing = 1 => isCrashing' = 1]_vars

\* LogFatalProcessState has returned after a fatal LogStackTrace or a
\* LogCurrentProcessState wrote its lines, and the flag reads true.
C2_Witness ==
    /\ fatalReturned
    /\ isCrashing = 1
    /\ \E i \in 1..Len(errStream) : errStream[i][2] \in {"stack", "current"}
    /\ \A t \in Threads : th[t].pc = "idle"

\* C3, as claimed: whenever some thread has entered LogFatalProcessState and
\* not yet returned, also while it waits for the busy flag, IsAppCrashing
\* reads true.
C3_SetOnEntry ==
    \A t \in Threads :
       th[t].op = "fatal" /\ th[t].pc # "idle" => isCrashing = 1

\* C3, as the code has it: whenever a thread inside LogFatalProcessState holds
\* the busy flag and is past _SetAppIsCrashing, IsAppCrashing reads true; a
\* thread still waiting for the flag has not set it.
C3_SetOnceAcquired ==
    \A t \in Threads :
       th[t].op = "fatal" /\ th[t].pc \in PastSetCrashing => isCrashing = 1

\* A fatal report writes its banner while another fatal call still spins.
C3_Witness ==
    \E t, u \in Threads :
       /\ th[t].op = "fatal" /\ th[t].pc = "info"
       /\ th[u].op = "fatal" /\ th[u].pc = "spin"
       /\ isCrashing = 1

-----------------------------------------------------------------------------
(* The claim about the calls that change what a report prints.             *)

\* C5: while a thread is inside a report, SetProgramInfoForErrors,
\* SetExtraLogInfoForErrors and SetProgramNameForErrors on another thread
\* never make the report read a snapshot, a map entry or a program name
\* buffer that is freed or being replaced.
C5_NoFreedRead == badReads = {}


-----------------------------------------------------------------------------
(* The claims about the degraded reports.                                  *)

\* C13: when _LogProcessStateHelper cannot create its log file, the call
\* writes the "Cannot create a log file" warning, releases the busy flag and
\* returns, with the crash flag set if it is fatal and no command run; that
\* warning is the only line of its report (no banner follows it); and the
\* busy flag is never left set with no report in flight, so a later report
\* can acquire it.
C13_CannotCreateAborts ==
    /\ [](busy => Holders # {} \/ Exited)
    /\ [](LET lines == HelperLines
          IN  \A i \in 1..(Len(lines) - 1) :
                 lines[i][3] = "cannot create" => StartsReport(lines[i + 1]))
    /\ [][\A t \in Threads :
             (th[t].pc = "logname" /\ th'[t].pc = "idle") =>
                /\ errStream' = Append(errStream, Line(t, "cannot create"))
                /\ ~busy'
                /\ cmdLog' = cmdLog
                /\ th[t].fatal => isCrashing' = 1]_vars

\* A fatal report could not create its log file, and a later report has
\* acquired the busy flag and written its banner.
C13_Witness ==
    \E i, j \in 1..Len(errStream) :
       /\ i < j
       /\ errStream[i][2] = "fatal" /\ errStream[i][3] = "cannot create"
       /\ errStream[j][3] = "banner"
       /\ isCrashing = 1

\* The command and the template _LogStackTraceForPid would use, and those
\* of _InvokeSessionLogger called with a stack trace.
PostmortemCmd ==
    IF config.envPostmortem # Null THEN config.envPostmortem
    ELSE config.processStateCmd

PostmortemArgv(isFatal) ==
    IF isFatal THEN config.fatalArgv ELSE config.nonFatalArgv

SessionCmd ==
    IF config.envLogSession # Null THEN config.envLogSession
    ELSE config.logStackToDbCmd

\* There is a template and _MakeArgv finds it too long for maxArgs slots.
Rejected(argv) ==
    /\ argv # NullArgv
    /\ ~MakeArgv(ArgvBuffer, maxArgs, "cmd", argv, <<>>).ret

PostmortemRejected(isFatal) ==
    PostmortemCmd # Null /\ Rejected(PostmortemArgv(isFatal))

SessionRejected ==
    /\ config.shouldLogStackToDb
    /\ SessionCmd # Null
    /\ Rejected(config.sessionCrashLogArgv)

Warned(t) == errStream' = Append(errStream, Line(t, "too many arguments"))

\* The external commands among the entries of a command log.
Commands(log) == SelectSeq(log, LAMBDA c : c[4] # "append session log")

\* C14: when the template does not fit the argv buffer, the step of a
\* report that calls _LogStackTraceForPid, and the steps that reach
\* _InvokeSessionLogger, write the "Too many arguments" warning and run no
\* command; no command whose template is rejected is ever run; and the
\* report goes on: in the helper the warning is followed by " done." of
\* the same report.
C14_TooManyArgsDegrades ==
    /\ [](\A i \in 1..Len(cmdLog) :
             /\ cmdLog[i][4] = "postmortem" =>
                   ~Rejected(PostmortemArgv(cmdLog[i][3]))
             /\ cmdLog[i][4] = "session" =>
                   ~Rejected(config.sessionCrashLogArgv))
    /\ [](LET lines == HelperLines
          IN  \A i \in 2..(Len(lines) - 1) :
                 (lines[i][3] = "too many arguments"
                    /\ lines[i - 1][3] = "writing") =>
                       /\ lines[i + 1][3] = "done"
                       /\ lines[i + 1][1] = lines[i][1])
    /\ [][\A t \in Threads :
             /\ (th[t].pc = "postmortem" /\ th'[t].pc = "done"
                   /\ PostmortemRejected(th[t].fatal)) =>
                   /\ errStream' = errStream \o <<Line(t, "writing"),
                                                  Line(t, "too many arguments")>>
                   /\ Commands(cmdLog') = Commands(cmdLog)
             /\ (th[t].pc = "finish" /\ th'[t].pc = "release"
                   /\ th[t].logged /\ SessionRejected) =>
                   /\ Warned(t)
                   /\ Commands(cmdLog') = Commands(cmdLog)
             /\ (th[t].pc = "st_finish" /\ th'[t].pc = "idle"
                   /\ th[t].fd # -1 /\ th[t].fatal /\ SessionRejected) =>
                   /\ Warned(t)
                   /\ Commands(cmdLog') = Commands(cmdLog)]_vars

\* A fatal report whose template did not fit has warned, printed " done."
\* and returned with the busy flag released.
C14_Witness ==
    /\ PostmortemRejected(TRUE)
    /\ \E i \in 2..Len(errStream) :
          /\ errStream[i][2] = "fatal" /\ errStream[i][3] = "done"
          /\ errStream[i - 1] = <<errStream[i][1], "fatal", "too many arguments">>
          /\ th[errStream[i][1]].pc = "idle"
    /\ ~busy
    /\ cmdLog = <<>>

\* C15: a LogStackTrace call that could not create its temp file writes the
\* stack trace, with the registered extra log info read under its mutex, to
\* stderr, and from then to its return neither appends a session log nor
\* runs the session-log command, fatal or not; every session log appended
\* and every session-log command run by LogStackTrace belongs to a call
\* that has a temp file.
C15_NoFileFallsBackToStderr ==
    /\ [](\A t \in Threads :
             (th[t].pc = "st_finish" /\ th[t].fd = -1) =>
                \E i \in 1..Len(errStream) :
                   errStream[i] = Line(t, "stack trace"))
    /\ [](Len(SelectSeq(cmdLog, LAMBDA c : c[2] = "stack"
                                           /\ c[4] = "append session log"))
            <= Len(SelectSeq(errStream,
                             LAMBDA l : l[3] = "stack is in file")))
    /\ [](Len(SelectSeq(cmdLog, LAMBDA c : c[2] = "stack"
                                           /\ c[4] = "session"))
            <= Len(SelectSeq(errStream,
                             LAMBDA l : l[3] = "stack is in file")))
    /\ [][\A t \in Threads :
             /\ (th[t].pc = "st_trace" /\ th'[t].pc = "st_finish"
                   /\ th[t].fd = -1) =>
                   /\ errStream' = Append(errStream, Line(t, "stack trace"))
                   /\ logInfoMutex = 0
             /\ (th[t].pc = "st_finish" /\ th'[t].pc = "idle"
                   /\ th[t].fd = -1) =>
                   /\ cmdLog' = cmdLog
                   /\ errStream' = errStream]_vars

\* A fatal LogStackTrace without a temp file has written the trace to
\* stderr and is about to return, with a session logger registered and
\* enabled that a trace with a file would run.
C15_Witness ==
    /\ config = AllRegistered
    /\ \E t \in Threads :
          /\ th[t].pc = "st_finish" /\ th[t].fatal /\ th[t].fd = -1
          /\ errStream = <<Line(t, "stack trace")>>
    /\ cmdLog = <<>>

-----------------------------------------------------------------------------
(* The claims about which commands are run.                                *)

\* C16: _LogStackTraceForPid takes as its command the value of
\* ARCH_POSTMORTEM when that is set, else the registered command, and as
\* its template the fatal one iff the report is fatal; with no command or no
\* template it runs nothing, warns of nothing and returns 0; else, when the
\* template is accepted, it runs argv[0] with the argv built from exactly
\* that command and that template, and returns 1.
C16_CommandSelection ==
    pm.pc = "done" =>
        LET cmd == IF config.envPostmortem # Null THEN config.envPostmortem
                   ELSE config.processStateCmd
            template == IF pm.isFatal THEN config.fatalArgv
                        ELSE config.nonFatalArgv
            r == pm.result
        IN  /\ (cmd = Null \/ template = NullArgv) => r = NoPost
            /\ (cmd # Null /\ template # NullArgv /\ ~Rejected(template)) =>
                  /\ r.run /\ r.ret = 1 /\ ~r.warn
                  /\ r.argv = MakeArgv(ArgvBuffer, maxArgs, cmd, template,
                                       CallerSubs("reason")).dst
                  /\ template[1] = "$cmd" => r.argv[0] = cmd
            /\ r.run => cmd # Null /\ template # NullArgv

\* A fatal call with ARCH_POSTMORTEM set beside a registered command has
\* run the command of the environment with the fatal template.
C16_Witness ==
    /\ pm.pc = "done" /\ pm.isFatal
    /\ config.envPostmortem = "/env/tool"
    /\ config.processStateCmd = "/bin/tool"
    /\ config.fatalArgv = FatalTemplate
    /\ config.nonFatalArgv = NonFatalTemplate
    /\ pm.result.run
    /\ pm.result.argv[0] = "/env/tool"
    /\ pm.result.argv[4] = Null


\* The entries of the command log that are runs of the session-log command.
SessionRuns ==
    {i \in 1..Len(cmdLog) :
        cmdLog[i][4] \in {"session", "session info", "session crash info"}}

\* C17: the session-log command is run only by LogSessionInfo and by fatal
\* reports, never by a report that is not fatal, and by nothing while
\* _shouldLogStackToDb is false.
C17_SessionCommandOnlyWhenDue ==
    \A i \in SessionRuns :
        /\ config.shouldLogStackToDb
        /\ cmdLog[i][4] = "session" => cmdLog[i][3]


-----------------------------------------------------------------------------
(* The claims about progress.                                              *)

\* A thread is inside a call, a thread has left it.
InCall(t) == th[t].pc \notin {"idle", "exited"}

\* Every return of a thread that holds the busy flag clears the flag.
ReleasesOnReturn ==
    [][\A t \in Threads :
          (th[t].pc \in Holding /\ th'[t].pc = "idle") => ~busy']_vars

-----------------------------------------------------------------------------
(* The claims about _GetStackTrace and the stack trace callback.           *)

\* The place of a character in a list of digits, counted from 0.
DigitValue(chars, c) == (CHOOSE d \in 1..Len(chars) : chars[d] = c) - 1

\* The number that a run of digits writes in the given base.
RECURSIVE NumberOf(_, _)
NumberOf(chars, digits) ==
    IF digits = <<>> THEN 0
    ELSE Len(chars) * NumberOf(chars, SubSeq(digits, 1, Len(digits) - 1))
         + DigitValue(chars, digits[Len(digits)])

\* Where the address of a line starts: after the " 0x" that ends the index.
AddressAt(line) == (CHOOSE j \in 2..Len(line) : line[j] = " 0x") + 1

\* The index that a line starts with, read back from its digits.
LineIndex(line) ==
    NumberOf(DecChars,
             SelectSeq(SubSeq(line, 2, AddressAt(line) - 2),
                       LAMBDA c : c # " "))

LineAddress(line) ==
    NumberOf(HexChars, SubSeq(line, AddressAt(line), AddressAt(line) + 15))

LineSymbol(line) == SubSeq(line, AddressAt(line) + 17, Len(line))

\* The frames of a call that the loop does not skip.
Kept(call) ==
    SelectSeq(call.frames,
              LAMBDA a : ~(call.skipUnknownFrames
                           /\ Symbolic(call.callback, a) = Unknown))

\* C19: _GetStackTrace returns one line per frame that is not skipped, in
\* the order of the frames, the k-th line starting with " #" and the index
\* k - 1 and naming the address and the symbolic name of the k-th such
\* frame; with skipUnknownFrames exactly the frames named "<unknown>" are
\* left out, without it there are as many lines as frames; an empty frame
\* list gives the one line that says no frames were saved.
C19_NumberedLines ==
    tr.call.pc = "done" =>
        LET call == tr.call
            rv == call.rv
        IN  IF call.frames = <<>>
              THEN rv = <<NoFramesLine>>
            ELSE /\ Len(rv) = Len(Kept(call))
                 /\ \A k \in 1..Len(rv) :
                       /\ rv[k][1] = " #"
                       /\ LineIndex(rv[k]) = k - 1
                       /\ LineAddress(rv[k]) = Kept(call)[k]
                       /\ LineSymbol(rv[k]) =
                             Symbolic(call.callback, Kept(call)[k])
                       /\ call.skipUnknownFrames =>
                             LineSymbol(rv[k]) # Unknown
                 /\ ~call.skipUnknownFrames => Len(rv) = Len(call.frames)

\* With skipUnknownFrames and the default formatter, the frame at 8, which
\* no symbol covers, is left out of three and the two lines are numbered 0
\* and 1.
C19_Witness ==
    /\ tr.call.pc = "done"
    /\ tr.call.frames = <<17, 8, 40>>
    /\ tr.call.skipUnknownFrames
    /\ tr.call.callback = "default"
    /\ Len(tr.call.rv) = 2
    /\ LineIndex(tr.call.rv[2]) = 1
    /\ LineAddress(tr.call.rv[2]) = 40

\* The callback most recently installed according to a history of calls.
LastInstalled(events) ==
    LET sets == SelectSeq(events, LAMBDA e : e[1] = "set")
    IN  IF sets = <<>> THEN EmptyCallback ELSE sets[Len(sets)][2]

\* The history up to the call of _GetStackTrace.
BeforeTrace ==
    SubSeq(tr.events, 1,
           (CHOOSE i \in 1..Len(tr.events) : tr.events[i][1] = "trace") - 1)

\* C20: _GetStackTrace formats every frame with the callback that was
\* installed last before the call, or with the default if that one is
\* empty or none was installed, whatever is installed while it runs; and
\* GetStackTraceCallback stores the callback installed last, or nothing if
\* it is given a null pointer.
C20_InstalledFormatter ==
    /\ [](tr.call.pc = "done" /\ tr.call.frames # <<>> =>
            LET cb == LastInstalled(BeforeTrace)
                used == IF cb = EmptyCallback THEN "default" ELSE cb
            IN  /\ tr.call.callback = used
                /\ \A k \in 1..Len(tr.call.rv) :
                      LineSymbol(tr.call.rv[k]) =
                          Symbolic(used, LineAddress(tr.call.rv[k]))
                /\ ~tr.call.skipUnknownFrames =>
                      Len(tr.call.rv) = Len(tr.call.frames))
    /\ [](tr.installed = LastInstalled(tr.events))
    /\ [][/\ tr'.got # tr.got => tr'.got = LastInstalled(tr.events)
          /\ tr'.nullGets # tr.nullGets => tr'.got = tr.got]_vars

\* cbB was installed, a trace of three frames was started, cbA was installed
\* before the loop ran, and the three lines are those of cbB; meanwhile
\* GetStackTraceCallback has stored cbA.
C20_Witness ==
    /\ tr.events = << <<"set", "cbB">>, <<"trace">>, <<"set", "cbA">> >>
    /\ tr.call.pc = "done"
    /\ tr.call.frames = <<8, 17, 40>>
    /\ ~tr.call.skipUnknownFrames
    /\ LineSymbol(tr.call.rv[2]) = <<"B", "1", "7">>
    /\ tr.got = "cbA"


-----------------------------------------------------------------------------
(* The claims about GetStackFrames.                                        *)

\* The smaller of two numbers.
Min(a, b) == IF a <= b THEN a ELSE b

\* The frames s(from), ..., s(to - 1) of a stack, s(0) being the innermost.
FramesFromTo(stack, from, to) ==
    IF from >= to THEN <<>> ELSE SubSeq(stack, from + 1, to)

\* C21: GetStackFrames(maxDepth, skip, frames) on an empty vector and a
\* stack of depth d leaves in it exactly the frames s(skip), ...,
\* s(min(d, skip + maxDepth) - 1); while it walks, the vector never holds
\* more than the maxDepth entries reserved at the start and no push_back
\* reallocates.
C21_SkipThenTruncate ==
    uw.pc # "idle" =>
        /\ Len(uw.frames) <= uw.args.maxdepth
        /\ uw.capacity = uw.args.maxdepth
        /\ ~uw.reallocated
        /\ uw.pc = "done" =>
              uw.frames =
                 FramesFromTo(uw.stack, uw.args.skip,
                              Min(Len(uw.stack),
                                  uw.args.skip + uw.args.maxdepth))

\* A stack of three frames walked with skip = 1 and maxDepth = 1: the
\* innermost frame is left out and the walk stops after one entry, before
\* the stack ends.
C21_Witness ==
    /\ uw.pc = "done"
    /\ Len(uw.stack) = 3
    /\ uw.args = [maxdepth |-> 1, skip |-> 1]
    /\ uw.frames = <<uw.stack[2]>>
    /\ uw.next = 3


-----------------------------------------------------------------------------
(* The claims about the extra log info.                                    *)

\* Everything a map holds, in map order: each key's header, then its lines.
RECURSIVE Everything(_)
Everything(map) ==
    IF map = <<>> THEN <<>>
    ELSE << <<"header", Head(map)[1]>> >> \o Head(map)[2]
         \o Everything(Tail(map))

LinesIn(out) == SelectSeq(out, LAMBDA x : x[1] = "line")

\* C22: EmitAnyExtraLogInfo writes a prefix of the map's headers and lines
\* in map order, each header before the lines of its key; with max = 0 it
\* writes all of it and no notice; with max > 0 it writes exactly the first
\* min(max, total) lines of the whole map, the notice iff total > max, and
\* nothing after the notice.
C22_CapAcrossKeys ==
    (fc.pc = "done" /\ fc.fn = "EmitAnyExtraLogInfo") =>
        LET all == Everything(fc.map)
            total == Len(LinesIn(all))
            out == fc.out
            cut == fc.max # 0 /\ total > fc.max
            body == IF cut THEN SubSeq(out, 1, Len(out) - 1) ELSE out
        IN  /\ cut => out # <<>> /\ out[Len(out)] = <<"notice">>
            /\ \A i \in 1..Len(body) : body[i] # <<"notice">>
            /\ Len(body) <= Len(all) /\ body = SubSeq(all, 1, Len(body))
            /\ ~cut => body = all
            /\ cut => /\ Len(LinesIn(body)) = fc.max
                      /\ all[Len(body) + 1][1] = "line"

\* Two keys of two lines each and max = 2: the lines of the first key, the
\* header of the second, the notice, and none of the second key's lines.
C22_Witness ==
    /\ fc.pc = "done" /\ fc.fn = "EmitAnyExtraLogInfo"
    /\ fc.max = 2
    /\ fc.out = << <<"header", <<97>>>>, <<"line", <<97>>, 1>>,
                   <<"line", <<97>>, 2>>, <<"header", <<98>>>>,
                   <<"notice">> >>


\* The pointer passed by the most recent registration of a key, as a set:
\* empty if the key was never registered.
MostRecent(regs, key) ==
    {regs[i][2] : i \in {i \in 1..Len(regs) :
                           /\ regs[i][1] = key
                           /\ \A j \in (i + 1)..Len(regs) : regs[j][1] # key}}

\* The pointer the registry holds for a key, as a set.
Registered(map, key) == {map[i][2] : i \in {i \in 1..Len(map) : map[i][1] = key}}

RegistryMatchesMostRecent ==
    li.pc = "run" =>
        \A key \in LogKeys :
            Registered(li.map, key) =
                {p \in MostRecent(li.regs, key) :
                     p # NullLines /\ VectorAt(p) # <<>>}

OtherKeysUntouched ==
    (li.pc = "run" /\ Len(li'.regs) = Len(li.regs) + 1) =>
        \A key \in LogKeys :
            key # li'.regs[Len(li'.regs)][1] =>
                Registered(li'.map, key) = Registered(li.map, key)

\* C23: after any sequence of SetExtraLogInfoForErrors calls the registry
\* holds exactly the keys whose most recent registration passed a non-null,
\* non-empty vector, each mapped to that pointer (so a null or empty
\* registration erases the key), and a registration leaves the entry of
\* every other key as it was.
C23_RegistryHoldsMostRecent ==
    []RegistryMatchesMostRecent /\ [][OtherKeysUntouched]_vars

\* One key registered and then erased by a pointer to an empty vector,
\* while the key registered in between keeps its entry.
C23_Witness ==
    /\ li.pc = "run"
    /\ li.regs = << <<<<98>>, 2>>, <<<<97>>, 3>>, <<<<98>>, 1>> >>
    /\ li.map = << <<<<97>>, 3>> >>


-----------------------------------------------------------------------------
(* The claims about _MeasureExecutionTime.                                 *)

\* C24: when the time budget ends the measurement without consensus, the
\* result is the least median of all the sorted buffers examined, the one
\* in which the budget was found used up included, and so never the value
\* bestMedian starts with.
C24_BestMedianOfAllRounds ==
    (me.pc = "done" /\ ~me.consensusSeen) =>
        /\ me.reachedConsensus = FALSE
        /\ me.result = me.minMedian
        /\ me.result # AllOnes

\* What the code does instead: without consensus the result is the least
\* median of the rounds before the last one, and all ones if the budget was
\* used up in the first round.
C24_MediansBeforeTheLast ==
    (me.pc = "done" /\ ~me.consensusSeen) =>
        /\ me.reachedConsensus = FALSE
        /\ me.result >= me.minMedian
        /\ me.rounds = 1 => me.result = AllOnes
        /\ me.rounds > 1 => me.result \in SampleTimes

C24_Witness ==
    /\ me.pc = "done" /\ ~me.consensusSeen
    /\ me.rounds > 1
    /\ me.result = 7 /\ me.minMedian = 6

\* C25: reachedConsensus is true exactly when some examined buffer had its
\* minimum equal to its median; the result is then that minimum, at most
\* every sample of the buffer; and the consensus is tested before the time
\* budget, so that with the budget used up a buffer in consensus is still
\* reported as consensus.
C25_ConsensusIffMinIsMedian ==
    me.pc = "done" =>
        /\ me.reachedConsensus = me.consensusSeen
        /\ me.reachedConsensus =>
              /\ me.result = At0(me.sampleTimes, 0)
              /\ me.result = At0(me.sampleTimes, NumSamples \div 2)
              /\ \A k \in 1..NumSamples : me.result <= me.sampleTimes[k]
        /\ At0(me.sampleTimes, 0) = At0(me.sampleTimes, NumSamples \div 2)
              => me.reachedConsensus

\* A budget of zero, used up from the start, and a buffer in consensus with
\* slower samples after the median.
C25_Witness ==
    /\ me.pc = "done"
    /\ me.maxTicks = 0
    /\ me.reachedConsensus
    /\ me.result = 5
    /\ At0(me.sampleTimes, NumSamples - 1) = 7


ItersDone == fc.pc = "done" /\ fc.fn = "sampleIters"

-----------------------------------------------------------------------------
(* The claims about the async-safe helpers.                                *)

\* The decimal digits of n >= 0, without leading zeros.
RECURSIVE DigitsOf(_)
DigitsOf(n) ==
    IF n < 10 THEN <<48 + n>> ELSE Append(DigitsOf(n \div 10), 48 + (n % 10))

CanonicalDecimal(x) == IF x < 0 THEN <<45>> \o DigitsOf(-x) ELSE DigitsOf(x)

ItoaDone == fc.pc = "done" /\ fc.fn = "asitoa"

\* C27: asitoa(s, x) leaves in s the canonical decimal text of x, with a
\* leading '-' exactly when x < 0, and returns the pointer to the NUL that
\* ends it.
C27_CanonicalDecimal == ItoaDone => fc.out = CanonicalDecimal(fc.x)

\* What the code does instead: the text before the NUL is the canonical
\* decimal text of the absolute value of x.
C27_DigitsOfAbsoluteValue ==
    ItoaDone => fc.out = DigitsOf(IF fc.x < 0 THEN -fc.x ELSE fc.x)

C27_Witness == ItoaDone /\ fc.x = -105 /\ fc.out = <<49, 48, 53>>


GetenvDone == fc.pc = "done" /\ fc.fn = "asgetenv"

\* An entry that consists of the name, then '=', then anything.
IsSetting(var, name) ==
    /\ Len(var) > Len(name)
    /\ SubSeq(var, 1, Len(name)) = name
    /\ var[Len(name) + 1] = 61

\* C28: asgetenv(name) returns the text after the '=' of the first entry
\* that is the name followed by '=', and null when there is none; an entry
\* whose name is longer or shorter than the name asked for is not matched,
\* and a null name gives null.
C28_FirstExactSetting ==
    GetenvDone =>
        LET found == IF fc.name = NullStr THEN {}
                     ELSE {i \in 1..Len(fc.environ) :
                             IsSetting(fc.environ[i], fc.name)}
        IN  IF found = {} THEN fc.out = NoValue
            ELSE LET first == CHOOSE i \in found : \A j \in found : i <= j
                     var == fc.environ[first]
                 IN  /\ fc.out.entry = first
                     /\ fc.out.at = Len(fc.name) + 1
                     /\ fc.out.text = SubSeq(var, Len(fc.name) + 2, Len(var))

\* The entry "AB=" comes before "A=B" and the name asked for is "A": the
\* first entry only starts with the name, the second one is found.
C28_Witness ==
    /\ GetenvDone
    /\ fc.name = <<65>>
    /\ fc.environ = << <<65, 66, 61>>, <<65, 61, 66>> >>
    /\ fc.out = [entry |-> 2, at |-> 2, text |-> <<66>>]


-----------------------------------------------------------------------------
(* The claims about the conversions of ticks.                              *)

TicksDone == fc.pc = "done" /\ fc.fn = "TicksTo"

\* floor(t * nsPerTick + 1/2) in exact arithmetic.
RoundHalfUp(nTicks, nsPerTick) ==
    ((2 * nTicks * nsPerTick) + Grid) \div (2 * Grid)

\* C29, as claimed: TicksToNanoseconds(t) is floor(t * nsPerTick + 1/2),
\* TicksToSeconds(t) is that number divided by 1e9, and both are
\* non-decreasing in t.
C29_ExactRoundHalfUp ==
    TicksDone =>
        /\ fc.nanoseconds = RoundHalfUp(fc.nTicks, fc.nsPerTick)
        /\ fc.seconds = [num |-> fc.nanoseconds, den |-> 1000000000]
        /\ TicksToNanoseconds(fc.nTicks + 1, fc.nsPerTick) >= fc.nanoseconds


\* C29, as the code has it: the product and the sum are rounded to the
\* nearest double before the fraction is dropped.  The result is
\* floor(t * nsPerTick + 1/2) when the product and the sum are exact, and
\* within one of it in every case; TicksToSeconds(t) is the result divided
\* by 1e9; and both are non-decreasing in t.
C29_RoundHalfUpOfDoubles ==
    TicksDone =>
        LET exact == RoundHalfUp(fc.nTicks, fc.nsPerTick)
            product == fc.nTicks * fc.nsPerTick
            half == Grid \div 2
        IN  /\ (Fl(product) = product /\ Fl(product + half) = product + half)
                  => fc.nanoseconds = exact
            /\ fc.nanoseconds - exact \in {-1, 0, 1}
            /\ fc.seconds = [num |-> fc.nanoseconds, den |-> 1000000000]
            /\ TicksToNanoseconds(fc.nTicks + 1, fc.nsPerTick)
                  >= fc.nanoseconds
            /\ TicksToSeconds(fc.nTicks + 1, fc.nsPerTick).num
                  >= fc.seconds.num

\* A product just below a half that is rounded up to the half: 13 ticks of
\* 3/16 ns are 2.4375 ns, rounded to 2.5, and the result is 3, not 2.
C29_Witness ==
    /\ TicksDone
    /\ fc.nTicks = 13 /\ fc.nsPerTick = 3
    /\ fc.nanoseconds = 3
    /\ RoundHalfUp(fc.nTicks, fc.nsPerTick) = 2


-----------------------------------------------------------------------------
(* The claim about the calibration.                                        *)

CalibDone == fc.pc = "done" /\ fc.fn = "_ComputeNanosecondsPerTick"

\* The frequency a kind of line of /proc/cpuinfo yields, in the unit of the
\* line: the number of the first such line with a ':', 0 if there is none.
LineYield(lines, key) ==
    LET hits == {i \in 1..Len(lines) : lines[i].key = key /\ lines[i].colon}
    IN  IF hits = {} THEN 0
        ELSE lines[CHOOSE i \in hits : \A j \in hits : i <= j].value

\* The frequencies, in Hz, that the three sources yield, in the order they
\* are tried; a file that cannot be opened yields 0.
SourceYields(files) ==
    << IF files.cpuinfoOpens
         THEN 500000 * LineYield(files.cpuinfo, "bogomips") ELSE 0,
       IF files.maxFreqOpens /\ files.maxFreq # <<>>
         THEN 1000 * files.maxFreq[1] ELSE 0,
       IF files.cpuinfoOpensAgain
         THEN 1000000 * LineYield(files.cpuinfo, "cpu MHz") ELSE 0 >>

\* C30: the calibration takes the frequency of the first of the sources
\* bogomips line, cpuinfo_max_freq file, 'cpu MHz' line that yields one
\* other than zero, and aborts with ARCH_ERROR if none does; it never
\* returns with nanoseconds per tick derived from a frequency of zero.
C30_FirstNonZeroOrAbort ==
    CalibDone =>
        LET yields == SourceYields(fc.files)
            good == {i \in 1..3 : yields[i] # 0}
        IN  /\ good = {} <=> fc.out.outcome = "abort"
            /\ good # {} =>
                  /\ fc.out.cpuHz =
                        yields[CHOOSE i \in good : \A j \in good : i <= j]
                  /\ fc.out.nsPerTick =
                        [num |-> 1000000000, den |-> fc.out.cpuHz]
            /\ fc.out.outcome = "return" => fc.out.nsPerTick.den # 0

\* A bogomips line of zero, a cpuinfo_max_freq that cannot be opened, and
\* the 'cpu MHz' line used.
C30_Witness ==
    /\ CalibDone
    /\ fc.files.cpuinfo = << [key |-> "bogomips", colon |-> TRUE, value |-> 0],
                             [key |-> "cpu MHz", colon |-> TRUE, value |-> 4] >>
    /\ ~fc.files.maxFreqOpens
    /\ fc.out.outcome = "return" /\ fc.out.cpuHz = 4000000


-----------------------------------------------------------------------------
(* The claims about the order of the steps of a report.                    *)

\* Thread t is inside _LogProcessStateHelper.
InHelper(t) == th[t].op \in {"fatal", "current"}

\* The last n lines that t wrote to the error stream, as what they say.
LastSaid(stream, t, n) ==
    LET mine == SelectSeq(stream, LAMBDA l : l[1] = t)
    IN  [i \in 1..n |-> IF Len(mine) - n + i >= 1
                          THEN mine[Len(mine) - n + i][3] ELSE "nothing"]

\* The last command that t ran, "none" if there is none.
LastRun(log, t) ==
    LET mine == SelectSeq(log, LAMBDA c : c[1] = t)
    IN  IF mine = <<>> THEN "none" ELSE mine[Len(mine)][4]

FilesOf(t, data) == {f \in fsFiles : f.by = t /\ f.data = data}

\* Thread t starts a command of the given kind in this step.
Starts(t, kind) ==
    /\ Len(cmdLog') = Len(cmdLog) + 1
    /\ cmdLog'[Len(cmdLog')][1] = t
    /\ cmdLog'[Len(cmdLog')][4] = kind

\* What holds at each place of the helper.
OrderAtPlaces ==
    \A t \in Threads :
        InHelper(t) =>
            /\ th[t].pc \notin {"idle", "spin", "exited"} => busy
            /\ (th[t].pc \notin {"idle", "spin", "exited", "crashing"}
                  /\ th[t].fatal) => isCrashing = 1
            /\ th[t].pc \in {"spin", "crashing", "progname", "debugger",
                             "logname"} => FilesOf(t, "empty") = {}
            /\ th[t].pc = "writefile" => Cardinality(FilesOf(t, "empty")) = 1
            /\ th[t].pc \in {"banner", "info", "postmortem", "done", "finish",
                             "release"} => FilesOf(t, "empty") = {}
            /\ th[t].pc = "info" => LastSaid(errStream, t, 1) = <<"banner">>
            /\ th[t].pc = "postmortem" =>
                  LastSaid(errStream, t, 2) = <<"banner", "info">>
            /\ th[t].pc = "finish" => LastSaid(errStream, t, 1) = <<"done">>
            /\ th[t].pc = "release" =>
                  \/ LastSaid(errStream, t, 1) = <<"done">>
                  \/ LastSaid(errStream, t, 2) =
                        <<"done", "too many arguments">>

\* What holds of the steps of the helper that run a command or release the
\* flag.
OrderOfSteps ==
    /\ (busy /\ ~busy') =>
          \E t \in Threads :
              /\ InHelper(t)
              /\ th[t].pc \in {"release", "logname"}
              /\ th'[t].pc = "idle"
    /\ \A t \in Threads :
        InHelper(t) =>
            /\ Starts(t, "postmortem") =>
                  /\ busy /\ th[t].pc = "postmortem"
                  /\ FilesOf(t, "empty") = {}
                  /\ FilesOf(t, "report") \cup FilesOf(t, "unopened") # {}
                  /\ LastSaid(errStream, t, 2) = <<"banner", "info">>
                  /\ LastSaid(errStream', t, 1) = <<"writing">>
            /\ Starts(t, "session") =>
                  /\ busy /\ th[t].pc = "finish"
                  /\ LastRun(cmdLog, t) = "postmortem"
                  /\ LastSaid(errStream, t, 1) = <<"done">>

\* C31, as the code has it: the flag is held from the first step to the
\* last; the crash flag is set next if the report is fatal; the log file is
\* created, and its header written unless the file cannot be opened again;
\* then the banner, the program info and the reason go to the error stream;
\* then the post-mortem command is run; then " done." and the extra log
\* info are printed; then the session logger is run, only after a
\* post-mortem command of the same report; the flag is released with the
\* return.
C31_StepsInOrder == []OrderAtPlaces /\ [][OrderOfSteps]_vars

\* C31, as claimed: moreover the post-mortem command is never started before
\* the log file of the report has its header written.
C31_HeaderBeforeCommand ==
    [][\A t \in Threads :
          (InHelper(t) /\ Starts(t, "postmortem")) =>
              /\ FilesOf(t, "report") # {}
              /\ FilesOf(t, "unopened") = {}]_vars

\* A fatal report is about to release the flag, having created its file,
\* written the header, printed its lines and run both commands.
C31_Witness ==
    \E t \in Threads :
        /\ th[t].pc = "release" /\ th[t].op = "fatal"
        /\ busy /\ isCrashing = 1
        /\ FilesOf(t, "report") # {}
        /\ LastRun(cmdLog, t) = "session"
        /\ Len(SelectSeq(cmdLog, LAMBDA c : c[1] = t)) = 2


-----------------------------------------------------------------------------
(* Further claims about CrashHandlerSystemv.                               *)

\* C32: for a timeout <= 0 the call waits for ever: it never goes through
\* the time-out code, never kills the child, and returns only after the
\* child has ended by itself or waitpid has failed for another reason than
\* a signal, whatever signals interrupt the wait.
C32_NonPositiveTimeoutWaitsForever ==
    sys.arg <= 0 =>
        /\ sys.pc # "timedout"
        /\ ~SysHasTimedOut
        /\ (sys.pc = "returned" /\ sys.msg # "unable to fork") =>
              sys.seen # "none" \/ sys.msg = "wait failed"

\* What the code does instead: the claim holds as long as no signal
\* interrupts the wait, and the first one that does ends it.
C32_ForeverUntilASignal ==
    sys.arg <= 0 =>
        /\ sys.wakes <= 1
        /\ sys.wakes = 0 => sys.pc # "timedout" /\ ~SysHasTimedOut
        /\ SysHasTimedOut => sys.wakes = 1 /\ sys.signals >= 1

C32_Witness ==
    /\ sys.arg <= 0
    /\ sys.pc = "returned"
    /\ SysHasTimedOut
    /\ sys.signals = 1

\* The place of the parent is one from which it has forked.
SysForked == sys.msg # "unable to fork" /\ sys.pc \notin {"idle", "entry"}

\* C37: every return of the parent after a fork leaves no alarm pending and
\* the SIGALRM handler that was installed at entry; the code at out changes
\* neither errno nor the result; and a call whose fork fails touches neither
\* the handler nor the alarm.
C37_CleanupOnEveryReturn ==
    /\ [](sys.pc = "returned" => ~sys.alarm /\ sys.handler = "old")
    /\ [][/\ (sys.pc = "out" /\ sys' # sys) =>
                /\ sys'.pc = "returned"
                /\ sys'.errno = sys.errno /\ sys'.retval = sys.retval
          /\ (sys.pc = "entry" /\ sys'.pc = "returned") =>
                /\ sys'.msg = "unable to fork"
                /\ sys'.handler = sys.handler /\ sys'.alarm = sys.alarm]_vars

\* The child exited while the one-second alarm was pending: the call has
\* returned its exit status, with the alarm cancelled and the handler
\* restored.
C37_Witness ==
    /\ sys.pc = "returned" /\ SysForked
    /\ sys.arg > 0 /\ sys.wakes = 0 /\ sys.seen = "exited"
    /\ sys.retval = 127 /\ sys.errno = "ENOENT"
    /\ ~sys.alarm /\ sys.handler = "old"


-----------------------------------------------------------------------------
(* The claim about a report made inside a report.                          *)

\* The call that a handler running on thread t has interrupted holds the
\* busy flag.
NestedInHolder(t) ==
    /\ th[t].outer # <<>>
    /\ th[t].outer[1].pc \in Holding

\* C33: a report entry point called on the thread that holds the busy flag
\* never gets the flag and never runs the report body: it stays in the spin
\* loop, the flag stays set, and the call it has interrupted stays where it
\* was, so that neither of the two calls ever returns.
C33_NestedReportSpinsForever ==
    /\ [](\A t \in Threads : NestedInHolder(t) => th[t].pc = "spin" /\ busy)
    /\ [][\A t \in Threads : NestedInHolder(t) => th'[t] = th[t] /\ busy']_vars

\* A fault in the thread that was writing the log file has made it report
\* again, while the other thread spins as well: nobody holds the flag in a
\* place from which it could be released.
C33_Witness ==
    \E t \in Threads :
        /\ NestedInHolder(t) /\ th[t].outer[1].pc = "writefile"
        /\ th[t].pc = "spin" /\ busy
        /\ \A u \in Threads \ {t} : th[u].pc = "spin"

\* A handler that interrupted a thread waiting for the flag does get the
\* flag once its holder has released it, and returns to the waiting call.
C33_NestedInWaiterReturns ==
    \E t \in Threads :
        /\ th[t].outer = <<>> /\ th[t].pc = "spin"
        /\ quota.reports = 0
        /\ fatalReturned
        /\ \A u \in Threads \ {t} : th[u] = Idle


-----------------------------------------------------------------------------
(* The claim about GetStackFrames on the other platforms.                  *)

VariantDone == fc.fn \in {"windows", "darwin"} /\ fc.pc # "ready"

\* C34: on Windows and on Darwin GetStackFrames appends at most maxDepth
\* frames and lets the platform write at most MAX_STACK_DEPTH entries to
\* stack, whether maxDepth is below or above MAX_STACK_DEPTH.
C34_AtMostMaxDepthWithinBuffer ==
    VariantDone =>
        /\ Len(fc.frames) <= fc.maxdepth
        /\ fc.asked <= MAX_STACK_DEPTH
        /\ fc.written <= MAX_STACK_DEPTH

\* What holds: the Windows variant keeps both limits and appends the frames
\* after the skipped ones; the Darwin variant asks for max(MAX_STACK_DEPTH,
\* maxdepth) entries and appends every frame after the skipped ones that
\* backtrace returned, so that it keeps the limits only on call stacks that
\* are shallow enough.
C34_WindowsHonoursDarwinDoesNot ==
    /\ (VariantDone /\ fc.fn = "windows") =>
          /\ Len(fc.frames) <= fc.maxdepth
          /\ fc.asked = MAX_STACK_DEPTH
          /\ fc.written <= MAX_STACK_DEPTH
          /\ fc.frames = Addrs(fc.skip + 1,
                  fc.skip + StdMin(StdMin(StdMax(fc.depth - fc.skip, 0),
                                          MAX_STACK_DEPTH), fc.maxdepth))
    /\ (VariantDone /\ fc.fn = "darwin") =>
          /\ fc.asked >= MAX_STACK_DEPTH /\ fc.asked >= fc.maxdepth
          /\ fc.depth <= MAX_STACK_DEPTH =>
                /\ fc.pc = "done" /\ fc.written = fc.depth
                /\ fc.frames = Addrs(fc.skip + 1, fc.depth)
          /\ (fc.depth <= fc.maxdepth /\ fc.depth <= MAX_STACK_DEPTH) =>
                Len(fc.frames) <= fc.maxdepth

\* Darwin, maxdepth below MAX_STACK_DEPTH: more frames than maxdepth.
C34_DarwinTooManyFrames ==
    /\ VariantDone /\ fc.fn = "darwin" /\ fc.pc = "done"
    /\ fc.maxdepth < MAX_STACK_DEPTH
    /\ Len(fc.frames) > fc.maxdepth

\* Darwin, maxdepth above MAX_STACK_DEPTH: entries past the end of stack.
C34_DarwinOverrun ==
    /\ VariantDone /\ fc.fn = "darwin"
    /\ fc.maxdepth > MAX_STACK_DEPTH
    /\ fc.written > MAX_STACK_DEPTH


-----------------------------------------------------------------------------
(* Further claims about _MakeArgv and the argument vector it builds.       *)

\* The indexes of the destination slots the call has written.
MkWritten == {i \in 0..(DstCap - 1) : mkOut.dst[i] # Untouched}

\* C35: _MakeArgv writes no slot outside the destination array: every index
\* it writes, that of the terminator included, is at most maxDstArgs - 1.
C35_WritesWithinDst ==
    mkPc = "done" => \A i \in MkWritten : i <= mkIn.maxDstArgs - 1

\* The longest template that is accepted: its terminator is written to the
\* last slot but one, and a second null to the last slot.
C35_Witness ==
    /\ MkCalled /\ mkOut.ret
    /\ Len(MkTemplate) = 3
    /\ mkIn.maxDstArgs = Len(MkTemplate) + 2
    /\ MkWritten = 0..(mkIn.maxDstArgs - 1)

HelperPostDone == fc.fn = "loggedStack" /\ fc.pc = "done"

\* The template the call has used, without its terminator.
HandedTemplate ==
    LET cmdArgv == IF fc.isFatal THEN config.fatalArgv
                   ELSE config.nonFatalArgv
    IN  SubSeq(cmdArgv, 1, Len(cmdArgv) - 1)

\* C36: the argument vector handed to the post-mortem command has a non-null
\* entry for every argument of the template, whatever reason and message
\* are, null included.
C36_NoNullArgument ==
    (HelperPostDone /\ fc.result.run) =>
        \A i \in 1..Len(HandedTemplate) : fc.result.argv[i - 1] # Null

\* What holds: an entry is null only where the template says $reason and
\* the entry point was given neither a reason nor a message; $log, $pid and
\* $cmd always have a value.
C36_NullOnlyForMissingReason ==
    (HelperPostDone /\ fc.result.run) =>
        \A i \in 1..Len(HandedTemplate) :
            fc.result.argv[i - 1] = Null =>
                /\ HandedTemplate[i] = "$reason"
                /\ fc.reason = Null /\ fc.message = Null

\* A fatal report without reason and message: the vector ends at $reason.
C36_EndsAtReason ==
    /\ HelperPostDone /\ fc.result.run
    /\ fc.isFatal /\ fc.reason = Null /\ fc.message = Null
    /\ HandedTemplate = SubSeq(FatalTemplate, 1, 4)
    /\ fc.result.argv[2] = "/tmp/st_prog.1234"
    /\ fc.result.argv[3] = Null


-----------------------------------------------------------------------------
(* Further claims about _MeasureExecutionTime.                             *)

BatchDone == fc.fn = "batch" /\ fc.pc # "ready"

\* C38: the batch size is defined for every estimate e >= 0 and every tick
\* quantum q >= 0: nothing is divided by zero, and sampleIters is at least 1
\* and an int.
C38_BatchSizeDefined ==
    BatchDone =>
        /\ ~DividesByZero(fc.estTicksPer, fc.tickQuantum)
        /\ fc.pc = "done"
        /\ fc.sampleIters >= 1 /\ fc.sampleIters <= AllOnes

\* What holds: the computation is defined, and its result between 1 and
\* 2000 q + 1, for every estimate but 0; an estimate of 0 ticks is divided by
\* unless the quantum is 0 as well.
C38_DefinedUnlessZeroEstimate ==
    BatchDone =>
        /\ fc.estTicksPer > 0 =>
              /\ fc.pc = "done"
              /\ fc.sampleIters >= 1
              /\ fc.sampleIters <= (2000 * fc.tickQuantum) + 1
        /\ (fc.estTicksPer = 0 /\ fc.tickQuantum = 0) =>
              fc.pc = "done" /\ fc.sampleIters = 1
        /\ DividesByZero(fc.estTicksPer, fc.tickQuantum) <=>
              (fc.estTicksPer = 0 /\ fc.tickQuantum > 0)

\* A call measured as 0 ticks with a quantum of 1: the division traps.
C38_ZeroEstimateTraps ==
    /\ BatchDone /\ fc.pc = "trapped"
    /\ fc.estTicksPer = 0 /\ fc.tickQuantum = 1


\* How many samples of a buffer, or of a part of it, measured v ticks.
CountOf(times, v) == Cardinality({k \in DOMAIN times : times[k] = v})

\* The samples of a sorted buffer that a round leaves alone: all but the 6
\* fastest and the 21 slowest.
Middle(times) == SubSeq(times, 7, 43)

\* C39: the loop of the measurement ends.  The budget is at most five
\* seconds of ticks; a round that samples again keeps the middle 37 samples
\* of the sorted buffer and takes 27 new ones; the round that finds the
\* budget used up returns without new samples; and once the buffer is
\* filled the measurement reaches its return.
C39_Terminates ==
    /\ [](me.maxTicks <= MaxTicks(5000000))
    /\ [][(me.pc = "sorted" /\ me'.pc = "sorted") =>
             /\ Len(me'.sampleTimes) = NumSamples
             /\ Len(Middle(me.sampleTimes)) = 37
             /\ \A v \in SampleTimes :
                    /\ CountOf(me'.sampleTimes, v)
                           >= CountOf(Middle(me.sampleTimes), v)
                    /\ CountOf(me'.sampleTimes, v)
                           <= CountOf(Middle(me.sampleTimes), v) + 27]_vars
    /\ [][(me.pc = "sorted" /\ me'.pc = "done") =>
             me'.sampleTimes = me.sampleTimes]_vars
    /\ (me.pc = "sorted") ~> (me.pc = "done")

\* The longest budget, cut to five seconds, found used up after rounds that
\* sampled again without reaching consensus.
C39_Witness ==
    /\ me.pc = "done" /\ ~me.reachedConsensus
    /\ me.maxTicks = MaxTicks(5000000) /\ me.maxTicks = 10000000
    /\ me.rounds > 1

====
